---- MODULE Spec2Model ----
(***************************************************************************)
(* Model of the tile workspace of MOSAIC (tessera1_2.py, and the           *)
(* auto-cleanup variant tessera1_1.py): tiles with serial numbers, the     *)
(* scene, the mouse gestures that create and erase tiles, the overlap      *)
(* classification and the bounded undo stack.                              *)
(*                                                                         *)
(* Lengths are in hundredths of a scene unit, so that the default sizes    *)
(* (10 x 1.16, 10 x 0.65 x 1.5, ...) are integers.  Drags are horizontal,  *)
(* which keeps every distance, interpolation and normal exact in integers. *)
(***************************************************************************)
EXTENDS Integers, Sequences, FiniteSets, TLC

VARIABLES
    tiles,            \* every tile object ever constructed, by creation order:
                      \* (x, y) is the top left corner in the scene, (px, py)
                      \* the item's pos()
    scene,            \* QGraphicsScene: ids of the tiles in the scene, insertion order
    undo_stack,       \* MainWindow.undo_stack
    rect_next,        \* ScalableRectangle._next_serial_number
    tri_next,         \* ScalableTriangle._next_serial_number
    batch_operation,  \* scene.batch_operation
    mode,             \* which of the exclusive drawing modes is on ("none" if none)
    erase_mode,       \* WorkspaceView.erase_mode
    is_drawing,       \* WorkspaceView.is_drawing (current_path_item is set with it)
    drawing_path,     \* WorkspaceView.drawing_path
    smoothed_path,    \* WorkspaceView.smoothed_path (<<>> while the attribute is unset)
    is_erasing,       \* WorkspaceView.is_erasing
    erased_rectangles,\* WorkspaceView.erased_rectangles
    mouse_down,       \* the left button is held (environment)
    overlap_state,    \* tessera1_1: the tiles whose overlap_state is "top", "bottom"
    auto_overlap,     \* tessera1_1: auto_overlap_checkbox is checked
    csv_file,         \* the rows of the CSV file written last (<<>> if none)
    path_in,          \* the argument path of a placement or resampling call
    spacing_in,       \* its spacing multiplier (rectangle_spacing), in hundredths
    resample_out,     \* what resample_path_by_distance returned (<<>> before the call)
    lines_in,         \* parallel_lines_count of a call of the lane loop
    lane_out,         \* its parallel_distance, line by line (<<>> before the call)
    is_zooming,       \* scene.is_zooming
    cached_overlap_info, \* the pairs <<tile, _cached_overlap_info>> of the tiles
                      \* that have the attribute
    paint_out,        \* the last paint: its item, the overlap_info it used and
                      \* should_check_overlaps
    loop,             \* the sampling loop of a placement or resampling call that
                      \* is running: its local variables and where it is
    last              \* history: what the last handler did

vars == <<tiles, scene, undo_stack, rect_next, tri_next, batch_operation, mode,
          erase_mode, is_drawing, drawing_path, smoothed_path, is_erasing,
          erased_rectangles, mouse_down, overlap_state, auto_overlap, csv_file,
          path_in, spacing_in, resample_out, lines_in, lane_out, is_zooming,
          cached_overlap_info, paint_out, loop, last>>

----------------------------------------------------------------------------
(* Bounds of the model *)

\* a handler of the full session creates tiles while fewer than MaxTiles
\* tiles were constructed
MaxTiles == 1
\* single adds of the session of single adds
MaxSingles == 3
\* points of one drag, the press included
MaxPathLen == 2
\* a drawing gesture of the session of drawing gestures starts while fewer than
\* MaxDrawn tiles were constructed
MaxDrawn == 3
\* a handler of the tessera1_1 session creates tiles while fewer than
\* MaxTiles11 tiles were constructed
MaxTiles11 == 3
\* the CSV session imports while fewer than MaxCsvTiles tiles were
\* constructed, and adds single tiles while fewer than MaxCsvAdds were
MaxCsvTiles == 3
MaxCsvAdds == 2

(* Program constants, in hundredths of a scene unit *)

\* capacity of the undo stack
UndoCapacity == 10
\* WorkspaceView.rectangle_size = 10
RectangleSize == 1000
\* rectangle_size * rectangle_spacing (1.16)
UserSpacing == 1160
\* rectangle_size * 1.1, the floor of the spacing
MinSpacing == 1100
\* rectangle_size * parallel_distance_multiplier (0.62)
BaseParallelDistance == 620
\* parallel_lines_count
ParallelLinesCount == 1
\* rectangle_size * edge_distance_multiplier (0.65)
BaseEdgeDistance == 650
\* edge_lines_count
EdgeLinesCount == 2
\* width of the frame pen (0.5): a shape reaches half of it beyond its outline
PenWidth == 50
\* margin of the nearby-items query (50)
SearchMargin == 5000
\* tessera1_1: width of the default pen of the temporary QGraphicsRectItem (1)
TempPenWidth == 100
\* tessera1_1: max_attempts of find_non_overlapping_position
MaxAttempts == 10

(* Inputs *)

\* x of the cursor for single adds; y is 0
CursorXs == {0, 600}
\* x of the press and of the drag points of a drawing gesture
PressXs == {0}
DragXs == {0, 1200}
\* the height of the drags, away from the single tiles
DragY == 5000
\* the circle click, away from the other tiles
CircleCentre == <<10000, 0>>
\* erase and select clicks: two on the single tiles, one on the centre tile of
\* the circle and one on its first ring tile
ClickPoints == {<<-300, -300>>, <<300, -300>>, CircleCentre,
                <<CircleCentre[1] + 1434, CircleCentre[2]>>}
\* tessera1_1 session: x of the view centre for single adds, x of the press
\* and of the drag point of a drawing gesture, and the height of the drags,
\* which crosses the single tiles but lies off them
CursorXs11 == {0, 600, 1200}
PressXs11 == {-600, 0}
DragXs11 == {600, 1200}
DragY11 == 800
\* the exclusive modes in which a drag draws a path
DrawModes == {"drawing", "edge", "parallel", "half"}

Abs(n) == IF n < 0 THEN -n ELSE n
Max(a, b) == IF a >= b THEN a ELSE b
Min(a, b) == IF a <= b THEN a ELSE b
Range(s) == {s[i] : i \in DOMAIN s}
Reverse(s) == [i \in 1..Len(s) |-> s[Len(s) + 1 - i]]

----------------------------------------------------------------------------
(* Geometry of the shapes (QGraphicsItem.collidesWithItem, scene.items(pos)) *)

AxisAligned(t) == t.rotation % 90 = 0
CentreX(t) == 2 * t.x + t.w
CentreY(t) == 2 * t.y + t.h

\* gap between the intervals [a1, a2] and [b1, b2] (negative when they overlap)
Gap(a1, a2, b1, b2) == Max(b1 - a2, a1 - b2)

\* an axis-aligned box against the right triangle with legs s at (tx, ty)
BoxMeetsTriangle(x1, x2, y1, y2, tx, ty, s, m) ==
    LET u1 == x1 - tx  u2 == x2 - tx  v1 == y1 - ty  v2 == y2 - ty
    IN /\ u2 > -m /\ v2 > -m /\ u1 < s + m /\ v1 < s + m
       /\ Max(u1, 0) + Max(v1, 0) < s + m

TriangleMeetsTriangle(a, b, m) ==
    LET dx == b.x - a.x  dy == b.y - a.y
    IN /\ Max(0, dx) + Max(0, dy) < Min(a.w, dx + dy + b.w) + m
       /\ dx < a.w + m /\ dy < a.w + m /\ -dx < b.w + m /\ -dy < b.w + m

\* two shapes whose pens reach m beyond the outlines together share a point
shapes_meet(a, b, m) ==
    IF AxisAligned(a) /\ AxisAligned(b)
    THEN CASE a.kind = "Rectangle" /\ b.kind = "Rectangle" ->
                 /\ Gap(a.x, a.x + a.w, b.x, b.x + b.w) < m
                 /\ Gap(a.y, a.y + a.h, b.y, b.y + b.h) < m
           [] a.kind = "Rectangle" /\ b.kind = "Triangle" ->
                 BoxMeetsTriangle(a.x, a.x + a.w, a.y, a.y + a.h, b.x, b.y, b.w, m)
           [] a.kind = "Triangle" /\ b.kind = "Rectangle" ->
                 BoxMeetsTriangle(b.x, b.x + b.w, b.y, b.y + b.h, a.x, a.y, a.w, m)
           [] OTHER -> TriangleMeetsTriangle(a, b, m)
    ELSE \* turned squares: they meet when the centres are closer than a side
         \* (inscribed discs); the ring of a circle keeps them farther apart
         \* than the diagonal reaches
         LET dx == CentreX(a) - CentreX(b)  dy == CentreY(a) - CentreY(b)
         IN dx * dx + dy * dy < 4 * Min(a.w, b.w) * Min(a.w, b.w)

\* QGraphicsItem.collidesWithItem of two tiles: the frame pen widens each
\* outline by half its width
collidesWithItem(a, b) == shapes_meet(a, b, PenWidth)

\* the shape of t holds the point p
ShapeContains(t, p) ==
    IF t.kind = "Rectangle"
    THEN /\ 2 * Gap(t.x, t.x + t.w, p[1], p[1]) < PenWidth
         /\ 2 * Gap(t.y, t.y + t.h, p[2], p[2]) < PenWidth
    ELSE BoxMeetsTriangle(p[1], p[1], p[2], p[2], t.x, t.y, t.w, 0)

\* sceneBoundingRect().adjusted(-50, -50, 50, 50) of a meets the bounds of b
Nearby(a, b) ==
    /\ Gap(a.x - SearchMargin, a.x + a.w + SearchMargin, b.x, b.x + b.w) <= 0
    /\ Gap(a.y - SearchMargin, a.y + a.h + SearchMargin, b.y, b.y + b.h) <= 0

----------------------------------------------------------------------------
(* The workspace a handler works on: W holds the fields a handler changes,  *)
(* pushes counts the batches the handler has recorded so far, and cleaned   *)
(* is the list rectangles_to_remove of the cleanup the handler has run,      *)
(* and imported is rectangles_created of the import it has run on the rows  *)
(* `read`.                                                                  *)

World == [tiles |-> tiles, scene |-> scene, undo_stack |-> undo_stack,
          rect_next |-> rect_next, tri_next |-> tri_next,
          batch_operation |-> batch_operation, pushes |-> 0, raised |-> FALSE,
          cleaned |-> <<>>, csv_file |-> csv_file, imported |-> 0, read |-> <<>>]

\* scene.items(): topmost first, and of equal z the item inserted last is topmost
items(sc) == Reverse(sc)

\* add_to_undo_stack dropping the newest batch instead of the oldest
add_to_undo_stack_drops_newest(W, action_type, rectangles) ==
    LET kept == IF Len(W.undo_stack) >= UndoCapacity
                THEN SubSeq(W.undo_stack, 1, Len(W.undo_stack) - 1) ELSE W.undo_stack
    IN [W EXCEPT !.undo_stack = Append(kept, [type |-> action_type,
                                               rectangles |-> rectangles]),
                 !.pushes = @ + 1]

\* MainWindow.add_to_undo_stack
add_to_undo_stack(W, action_type, rectangles) ==
    LET kept == IF Len(W.undo_stack) >= UndoCapacity
                THEN Tail(W.undo_stack) ELSE W.undo_stack
    IN [W EXCEPT !.undo_stack = Append(kept, [type |-> action_type,
                                               rectangles |-> rectangles]),
                 !.pushes = @ + 1]

\* ScalableRectangle.__init__ and WorkspaceView.add_rectangle, with the
\* rotation the caller sets on the returned item
add_rectangle(W, x, y, width, height, rotation) ==
    LET id == Len(W.tiles) + 1
        rect == [kind |-> "Rectangle", serial_number |-> W.rect_next,
                 x |-> x, y |-> y, w |-> width, h |-> height, rotation |-> rotation,
                 px |-> 0, py |-> 0]
        W1 == [W EXCEPT !.tiles = Append(@, rect), !.scene = Append(@, id),
                        !.rect_next = @ + 1]
    IN IF ~W.batch_operation
       THEN add_to_undo_stack(W1, "add_rectangles", <<id>>) ELSE W1

\* ScalableTriangle.__init__ and WorkspaceView.add_triangle
add_triangle(W, x, y, size) ==
    LET id == Len(W.tiles) + 1
        triangle == [kind |-> "Triangle", serial_number |-> W.tri_next,
                     x |-> x, y |-> y, w |-> size, h |-> size, rotation |-> 0,
                     px |-> x, py |-> y]
        W1 == [W EXCEPT !.tiles = Append(@, triangle), !.scene = Append(@, id),
                        !.tri_next = @ + 1]
    IN IF ~W.batch_operation
       THEN add_to_undo_stack(W1, "add_triangles", <<id>>) ELSE W1

\* scene.removeItem for every tile of S
removeItems(W, S) == [W EXCEPT !.scene = SelectSeq(@, LAMBDA e : e \notin S)]

\* scene.addItem for the tiles of the list in turn; an item already in the
\* scene stays where it is
RECURSIVE addItems(_, _)
addItems(sc, list) ==
    IF list = <<>> THEN sc
    ELSE addItems(IF Head(list) \in Range(sc) THEN sc ELSE Append(sc, Head(list)),
                  Tail(list))

\* the tiles of the scene at a point, topmost first (scene.items(pos))
items_at(ts, sc, p) == SelectSeq(items(sc), LAMBDA e : ShapeContains(ts[e], p))

----------------------------------------------------------------------------
(* Overlap classification (tessera1_2) *)

\* the items the loop of check_for_overlaps_with_color stops at: the nearby
\* tiles other than id that collide with it, in the order of scene.items
colliding_items(ts, sc, id) ==
    SelectSeq(items(sc), LAMBDA e : /\ e # id
                                    /\ Nearby(ts[id], ts[e])
                                    /\ collidesWithItem(ts[id], ts[e]))

\* ScalableRectangle/ScalableTriangle.check_for_overlaps_with_color:
\* <<overlapping, is_newer>>, decided at the first colliding item found
\* (the first item of the list `found`)
overlap_info_from(ts, id, found) ==
    IF found = <<>> THEN <<FALSE, FALSE>>
    ELSE <<TRUE, ts[id].serial_number > ts[Head(found)].serial_number>>

check_for_overlaps_with_color(ts, sc, id) ==
    overlap_info_from(ts, id, colliding_items(ts, sc, id))

----------------------------------------------------------------------------
(* Paths: sequences of points <<x, y>> *)

\* floor of the square root
RECURSIVE sqrt_between(_, _, _)
sqrt_between(n, low, high) ==
    IF low = high THEN low
    ELSE IF ((low + high + 1) \div 2) * ((low + high + 1) \div 2) <= n
    THEN sqrt_between(n, (low + high + 1) \div 2, high)
    ELSE sqrt_between(n, low, (low + high + 1) \div 2 - 1)
ISqrt(n) == sqrt_between(n, 0, Min(n, 46340))

\* ((dx) ** 2 + (dy) ** 2) ** 0.5; exact along the axes
Dist(p, q) ==
    IF p[2] = q[2] THEN Abs(q[1] - p[1])
    ELSE IF p[1] = q[1] THEN Abs(q[2] - p[2])
    ELSE ISqrt((q[1] - p[1]) * (q[1] - p[1]) + (q[2] - p[2]) * (q[2] - p[2]))

\* p1 + ratio * (p2 - p1) with ratio = along / segment_distance
Interpolate(p1, p2, along, segment_distance) ==
    <<p1[1] + (along * (p2[1] - p1[1])) \div segment_distance,
      p1[2] + (along * (p2[2] - p1[2])) \div segment_distance>>

\* WorkspaceView.smooth_path
smooth_path(path) ==
    IF Len(path) < 3 THEN path
    ELSE [i \in 1..Len(path) |->
            IF i = 1 \/ i = Len(path) THEN path[i]
            ELSE <<(path[i - 1][1] + path[i][1] + path[i + 1][1]) \div 3,
                   (path[i - 1][2] + path[i][2] + path[i + 1][2]) \div 3>>]

\* the spacing without its floor of 1.1 rectangle sizes
target_spacing_not_floored(user_spacing) == user_spacing

\* max(min_spacing, user_spacing) for a spacing in hundredths
target_spacing(user_spacing) == Max(MinSpacing, user_spacing)

\* the sampling loop of resample_path_by_distance, from segment seg on
RECURSIVE resample_from(_, _, _, _, _, _)
resample_from(path, seg, current_distance, target_distance, spacing, resampled) ==
    IF seg > Len(path) - 1 THEN resampled
    ELSE LET p1 == path[seg]
             p2 == path[seg + 1]
             segment_distance == Dist(p1, p2)
         IN IF target_distance <= current_distance + segment_distance
            THEN resample_from(path, seg, current_distance, target_distance + spacing,
                     spacing,
                     IF segment_distance > 0
                     THEN Append(resampled, Interpolate(p1, p2,
                              target_distance - current_distance, segment_distance))
                     ELSE resampled)
            ELSE resample_from(path, seg + 1, current_distance + segment_distance,
                     target_distance, spacing, resampled)

\* the last point added when it is farther than the whole spacing
add_last_point_beyond_spacing(resampled_path, last_point, spacing) ==
    IF Dist(last_point, resampled_path[Len(resampled_path)]) > spacing
    THEN Append(resampled_path, last_point) ELSE resampled_path

\* the end of resample_path_by_distance: the last point is added when it is
\* farther than half the spacing from the last resampled point
add_last_point(resampled, last_point, spacing) ==
    IF 2 * Dist(last_point, resampled[Len(resampled)]) > spacing
    THEN Append(resampled, last_point) ELSE resampled

\* WorkspaceView.resample_path_by_distance
resample_path_by_distance(path, user_spacing) ==
    IF Len(path) < 2 THEN path
    ELSE add_last_point(resample_from(path, 1, 0, target_spacing(user_spacing),
                                      target_spacing(user_spacing), <<path[1]>>),
                        path[Len(path)], target_spacing(user_spacing))

\* degrees(atan2(dy, dx)) for the directions of the model, 0 for the null vector
angle_of(dx, dy) ==
    IF dy = 0 THEN (IF dx < 0 THEN 180 ELSE 0)
    ELSE IF dx = 0 THEN (IF dy > 0 THEN 90 ELSE -90)
    ELSE IF dy > 0 THEN (IF dx > 0 THEN 45 ELSE 135)
    ELSE (IF dx > 0 THEN -45 ELSE -135)

\* bool(QPointF): a found point counts unless it is the null point (0, 0)
Truthy(found) == found # <<>> /\ found[1] # <<0, 0>>

\* target_distance * 0.8 of calculate_smooth_angle, with target_distance =
\* rectangle_size * 1.5
angle_reach == (RectangleSize * 12) \div 10

\* the point the backward search of calculate_smooth_angle tests at index i
back_test(path, seg, along, segment_distance, current, i) ==
    IF i = seg /\ 2 * along > segment_distance THEN current ELSE path[i]

\* the point the forward search tests at index i
forward_test(path, seg, along, segment_distance, current, i) ==
    IF i = seg
    THEN (IF 2 * along < segment_distance THEN current ELSE path[i + 1])
    ELSE path[i]

\* back_point: the first point, going back from seg, at least angle_reach away
\* (<<>> for None)
back_point(path, seg, along, segment_distance, current) ==
    LET hits == {i \in 1..seg :
                    Dist(back_test(path, seg, along, segment_distance, current, i),
                         current) >= angle_reach}
    IN IF hits = {} THEN <<>>
       ELSE <<back_test(path, seg, along, segment_distance, current,
                        CHOOSE i \in hits : \A j \in hits : j <= i)>>

\* forward_point: the first point, going forward from seg, at least
\* angle_reach away (<<>> for None)
forward_point(path, seg, along, segment_distance, current) ==
    LET hits == {i \in seg..Len(path) :
                    Dist(forward_test(path, seg, along, segment_distance, current, i),
                         current) >= angle_reach}
    IN IF hits = {} THEN <<>>
       ELSE <<forward_test(path, seg, along, segment_distance, current,
                           CHOOSE i \in hits : \A j \in hits : i <= j)>>

\* the direction calculate_smooth_angle takes the angle of
smooth_direction(back, forward, current, p1, p2) ==
    IF Truthy(back) /\ Truthy(forward)
    THEN <<forward[1][1] - back[1][1], forward[1][2] - back[1][2]>>
    ELSE IF Truthy(forward)
    THEN <<forward[1][1] - current[1], forward[1][2] - current[2]>>
    ELSE IF Truthy(back)
    THEN <<current[1] - back[1][1], current[2] - back[1][2]>>
    ELSE <<p2[1] - p1[1], p2[2] - p1[2]>>

angle_of_direction(direction) == angle_of(direction[1], direction[2])

\* WorkspaceView.calculate_smooth_angle at the point current, `along` into
\* segment seg
calculate_smooth_angle(path, seg, along, segment_distance, current) ==
    angle_of_direction(
        smooth_direction(back_point(path, seg, along, segment_distance, current),
                         forward_point(path, seg, along, segment_distance, current),
                         current, path[seg], path[seg + 1]))

\* one tile of the placing loop, centred at the point `at`
place_at(W, at, angle_degrees, half) ==
    IF half
    THEN add_rectangle(W, at[1] - RectangleSize \div 2,
                       at[2] - (RectangleSize \div 2) \div 2, RectangleSize,
                       RectangleSize \div 2, angle_degrees)
    ELSE add_rectangle(W, at[1] - RectangleSize \div 2, at[2] - RectangleSize \div 2,
                       RectangleSize, RectangleSize, angle_degrees)

\* the tile placed `along` into segment seg
place_in_segment(W, path, seg, along, segment_distance, at, half) ==
    place_at(W, at, calculate_smooth_angle(path, seg, along, segment_distance, at), half)

\* the placing loop of create_rectangles_along_specific_path (half = FALSE)
\* and of create_half_rectangles_along_path (half = TRUE), from segment seg on
RECURSIVE place_from(_, _, _, _, _, _, _)
place_from(W, path, seg, current_distance, target_distance, spacing, half) ==
    IF seg > Len(path) - 1 THEN W
    ELSE LET segment_distance == Dist(path[seg], path[seg + 1])
         IN IF target_distance <= current_distance + segment_distance
            THEN place_from(IF segment_distance > 0
                            THEN place_in_segment(W, path, seg,
                                     target_distance - current_distance,
                                     segment_distance,
                                     Interpolate(path[seg], path[seg + 1],
                                         target_distance - current_distance,
                                         segment_distance),
                                     half)
                            ELSE W,
                            path, seg, current_distance, target_distance + spacing,
                            spacing, half)
            ELSE place_from(W, path, seg + 1, current_distance + segment_distance,
                     target_distance, spacing, half)

\* WorkspaceView.create_rectangles_along_specific_path
create_rectangles_along_specific_path(W, path, user_spacing) ==
    IF Len(path) < 2 THEN W
    ELSE place_from(W, path, 1, 0, 0, target_spacing(user_spacing), FALSE)

\* WorkspaceView.create_half_rectangles_along_path
create_half_rectangles_along_path(W, path, user_spacing) ==
    IF Len(path) < 2 THEN W
    ELSE place_from(W, path, 1, 0, 0, target_spacing(user_spacing), TRUE)

----------------------------------------------------------------------------
(* Lanes *)

\* the left and right points of the lane loop of create_parallel_paths and of
\* create_edge_rectangles_along_path; indexing resampled_path[i + 1] at the
\* first point raises IndexError when the resampled path has one point
lane_raises(resampled) == Len(resampled) = 1

lane_direction(resampled, i) ==
    IF i = 1
    THEN <<2 * (resampled[2][1] - resampled[1][1]), 2 * (resampled[2][2] - resampled[1][2])>>
    ELSE IF i = Len(resampled)
    THEN <<2 * (resampled[i][1] - resampled[i - 1][1]),
           2 * (resampled[i][2] - resampled[i - 1][2])>>
    ELSE <<resampled[i + 1][1] - resampled[i - 1][1],
           resampled[i + 1][2] - resampled[i - 1][2]>>

\* side = 1 for the left lane, -1 for the right lane
RECURSIVE lane_path(_, _, _, _)
lane_path(resampled, i, distance, side) ==
    IF i > Len(resampled) THEN <<>>
    ELSE LET d == lane_direction(resampled, i)
             length == Dist(<<0, 0>>, d)
             point == <<resampled[i][1] + (side * (0 - d[2]) * distance) \div length,
                        resampled[i][2] + (side * d[1] * distance) \div length>>
         IN (IF length > 0 THEN <<point>> ELSE <<>>)
            \o lane_path(resampled, i + 1, distance, side)

\* a lane that has points is filled by create_rectangles_along_specific_path
place_lane(W, path, user_spacing) ==
    IF path # <<>> THEN create_rectangles_along_specific_path(W, path, user_spacing)
    ELSE W

\* the loop over line_index filling the right lane before the left lane
place_lane_pair_right_first(W, resampled, distance, user_spacing) ==
    place_lane(place_lane(W, lane_path(resampled, 1, distance, -1), user_spacing),
               lane_path(resampled, 1, distance, 1), user_spacing)

\* one round of the loop over line_index: the left lane, then the right lane
place_lane_pair(W, resampled, distance, user_spacing) ==
    place_lane(place_lane(W, lane_path(resampled, 1, distance, 1), user_spacing),
               lane_path(resampled, 1, distance, -1), user_spacing)

\* parallel_distance of line_index, in hundredths (second..fifth_line_spacing
\* = 1.5, 1.7, 1.8, 1.85)
parallel_distance(line_index) ==
    CASE line_index = 1 -> BaseParallelDistance
      [] line_index = 2 -> (BaseParallelDistance * 2 * 150) \div 100
      [] line_index = 3 -> (BaseParallelDistance * 3 * 170) \div 100
      [] line_index = 4 -> (BaseParallelDistance * 4 * 180) \div 100
      [] line_index = 5 -> (BaseParallelDistance * 5 * 185) \div 100
      [] OTHER -> (BaseParallelDistance * (60 + (line_index - 5) * 15)) \div 10

RECURSIVE parallel_lines(_, _, _)
parallel_lines(W, resampled, line_index) ==
    IF line_index > ParallelLinesCount THEN W
    ELSE IF lane_raises(resampled) THEN [W EXCEPT !.raised = TRUE]
    ELSE parallel_lines(place_lane_pair(W, resampled, parallel_distance(line_index),
                                        UserSpacing),
                        resampled, line_index + 1)

\* WorkspaceView.create_parallel_paths on self.smoothed_path
create_parallel_paths(W, smoothed) ==
    IF Len(smoothed) < 2 THEN W
    ELSE parallel_lines(W, resample_path_by_distance(smoothed, UserSpacing), 1)

\* edge_distance of line_index: cumulative (edge_first..fifth_line_spacing =
\* 1.5, 1.8, 2.0, 2.0, 2.0, then 1.5)
RECURSIVE edge_distance(_)
edge_distance(line_index) ==
    CASE line_index = 1 -> (BaseEdgeDistance * 15) \div 10
      [] line_index = 2 -> edge_distance(1) + (BaseEdgeDistance * 18) \div 10
      [] line_index \in 3..5 -> edge_distance(line_index - 1) + BaseEdgeDistance * 2
      [] OTHER -> edge_distance(line_index - 1) + (BaseEdgeDistance * 15) \div 10

RECURSIVE edge_lines(_, _, _)
edge_lines(W, resampled, line_index) ==
    IF line_index > EdgeLinesCount THEN W
    ELSE IF lane_raises(resampled) THEN [W EXCEPT !.raised = TRUE]
    ELSE edge_lines(place_lane_pair(W, resampled, edge_distance(line_index),
                                    UserSpacing),
                    resampled, line_index + 1)

\* the centre half tiles, then the side lanes, on the resampled path
edge_rectangles_on(W, resampled) ==
    edge_lines(create_half_rectangles_along_path(W, resampled, UserSpacing),
               resampled, 1)

\* WorkspaceView.create_edge_rectangles_along_path (edge_line_spacing = 1.16)
create_edge_rectangles_along_path(W, path) ==
    IF Len(path) < 2 THEN W
    ELSE edge_rectangles_on(W, resample_path_by_distance(path, UserSpacing))

\* the last line of create_rectangles_along_path, not reached by an error
batch_off(W) == IF W.raised THEN W ELSE [W EXCEPT !.batch_operation = FALSE]

\* the branches of create_rectangles_along_path on the smoothed path
tiles_of_mode(W, smoothed, m) ==
    IF m = "edge" THEN create_edge_rectangles_along_path(W, smoothed)
    ELSE IF m = "parallel" THEN W
    ELSE IF m = "half" THEN create_half_rectangles_along_path(W, smoothed, UserSpacing)
    ELSE create_rectangles_along_specific_path(W, smoothed, UserSpacing)

\* WorkspaceView.create_rectangles_along_path; an error raised inside leaves
\* batch_operation set
create_rectangles_along_path(W, path, m) ==
    IF Len(path) < 2 THEN W
    ELSE batch_off(tiles_of_mode([W EXCEPT !.batch_operation = TRUE],
                                 smooth_path(path), m))

----------------------------------------------------------------------------
(* Circle of rectangles *)

\* ring 1 of create_circle_of_rectangles with circle_radius = 1, the smallest
\* count the field accepts: radius_distance = 10 * sqrt(2) + 0.2 = 14.34,
\* num_rectangles = max(4, int(2 * pi)) = 6; <<dx, dy, angle_degrees>>
RingPoints == << <<1434, 0, 90>>, <<717, 1242, 150>>, <<-717, 1242, 210>>,
                 <<-1434, 0, 270>>, <<-717, -1242, 330>>, <<717, -1242, 390>> >>

RECURSIVE ring_from(_, _, _)
ring_from(W, centre, i) ==
    IF i > Len(RingPoints) THEN W
    ELSE ring_from(add_rectangle(W, centre[1] + RingPoints[i][1] - RectangleSize \div 2,
                                 centre[2] + RingPoints[i][2] - RectangleSize \div 2,
                                 RectangleSize, RectangleSize, RingPoints[i][3]),
                   centre, i + 1)

\* WorkspaceView.create_circle_of_rectangles
create_circle_of_rectangles(W, centre) ==
    ring_from(add_rectangle(W, centre[1] - RectangleSize \div 2,
                            centre[2] - RectangleSize \div 2,
                            RectangleSize, RectangleSize, 45),
              centre, 1)

----------------------------------------------------------------------------
(* Handlers *)

\* what the handler op did, for the properties below: how many batches it
\* recorded and how many of the batches held before were discarded for them,
\* whether it raised an error, how many tiles it created, took out of the
\* scene (for the release of an erase drag: the drag took out) and put back
\* into the scene, the type of the batch an undo popped, and the tiles that
\* were live before a clear-all, the count a cleanup returned and the tiles it
\* listed for removal, the count an import reported and the rows it read, and
\* the tuples of the live tiles at the last export
TupleOf(t) == <<t.x, t.y, t.w, t.h, t.rotation, t.kind, t.serial_number>>

\* the text undo_last_action puts into status_label ("Undid" for the texts
\* that begin so, "" when it sets none or the handler is another one)
undo_status_of(op) ==
    IF op = "undo_nothing" THEN "Nothing to undo"
    ELSE IF op = "undo"
            /\ undo_stack[Len(undo_stack)].type
                  \in {"add_rectangles", "clear_all", "erase_rectangles",
                       "delete_red_rectangles", "delete_green_rectangles"}
    THEN "Undid"
    ELSE ""

Did(op, W) ==
    [op |-> op, pushes |-> W.pushes, raised |-> W.raised,
     dropped |-> Max(0, Len(undo_stack) + W.pushes - UndoCapacity),
     created |-> Len(W.tiles) - Len(tiles),
     removed |-> IF op = "release_erase" THEN Len(erased_rectangles)
                 ELSE Cardinality(Range(scene) \ Range(W.scene)),
     restored |-> Cardinality((Range(W.scene) \cap (1..Len(tiles))) \ Range(scene)),
     type |-> IF op = "undo" THEN undo_stack[Len(undo_stack)].type ELSE "",
     undo_status |-> undo_status_of(op),
     cleared |-> IF op = "clear_all" THEN Range(scene) ELSE {},
     count |-> Len(W.cleaned), cleaned |-> Range(W.cleaned),
     imported |-> W.imported, read |-> W.read,
     exported |-> IF op = "save_csv"
                  THEN [i \in 1..Len(scene) |-> TupleOf(tiles[items(scene)[i]])]
                  ELSE last.exported]

\* the handler leaves the workspace W
Leaves(op, W) ==
    /\ tiles' = W.tiles
    /\ scene' = W.scene
    /\ undo_stack' = W.undo_stack
    /\ rect_next' = W.rect_next
    /\ tri_next' = W.tri_next
    /\ batch_operation' = W.batch_operation
    /\ csv_file' = W.csv_file
    /\ UNCHANGED <<path_in, spacing_in, resample_out, lines_in, lane_out,
                   is_zooming, cached_overlap_info, paint_out, loop>>
    /\ last' = Did(op, W)

\* the Rectangle items of scene.items() that are not in the list taken before
new_rectangles(W) ==
    SelectSeq(items(W.scene), LAMBDA e : /\ W.tiles[e].kind = "Rectangle"
                                         /\ e \notin Range(scene))

\* the batch of the new rectangles a circle click or a drawing gesture
\* records, unless an error has ended the handler
record_new_rectangles(W) ==
    IF ~W.raised /\ new_rectangles(W) # <<>>
    THEN add_to_undo_stack(W, "add_rectangles", new_rectangles(W))
    ELSE W

\* mouseReleaseEvent: create_parallel_paths follows in the parallel mode
parallel_paths_of_mode(W, smoothed) ==
    IF ~W.raised /\ mode = "parallel" THEN create_parallel_paths(W, smoothed) ELSE W

\* the state after construction, no call of a placement function singled out
Constructed ==
    /\ tiles = <<>>
    /\ scene = <<>>
    /\ undo_stack = <<>>
    /\ rect_next = 1
    /\ tri_next = 1
    /\ batch_operation = FALSE
    /\ mode = "none"
    /\ erase_mode = FALSE
    /\ is_drawing = FALSE
    /\ drawing_path = <<>>
    /\ smoothed_path = <<>>
    /\ is_erasing = FALSE
    /\ erased_rectangles = <<>>
    /\ mouse_down = FALSE
    /\ overlap_state = [top |-> {}, bottom |-> {}]
    /\ auto_overlap = FALSE
    /\ csv_file = <<>>
    /\ is_zooming = FALSE
    /\ cached_overlap_info = {}
    /\ paint_out = [item |-> 0, overlap_info |-> <<>>, checked |-> FALSE]
    /\ loop = [pc |-> "idle", fn |-> "", seg |-> 0, current_distance |-> 0,
               target_distance |-> 0, spacing |-> 0, out |-> <<>>]
    /\ last = [op |-> "init", pushes |-> 0, raised |-> FALSE, dropped |-> 0,
               created |-> 0, removed |-> 0, restored |-> 0, type |-> "",
               undo_status |-> "",
               cleared |-> {}, count |-> 0, cleaned |-> {}, imported |-> 0,
               read |-> <<>>, exported |-> <<>>]

Init ==
    /\ Constructed
    /\ path_in = <<>>
    /\ spacing_in = 116
    /\ resample_out = <<>>
    /\ lines_in = ParallelLinesCount
    /\ lane_out = <<>>

\* WorkspaceView.keyPressEvent, Key_T (MainWindow.add_rectangle is its full
\* rectangle branch) with the cursor at (cx, 0)
keyPressEvent_T(cx) ==
    /\ Leaves("add_rectangle",
              IF mode = "half"
              THEN add_rectangle(World, cx - RectangleSize \div 2 + RectangleSize \div 4,
                                 0 - RectangleSize \div 2, RectangleSize \div 2,
                                 RectangleSize, 0)
              ELSE add_rectangle(World, cx - RectangleSize \div 2,
                                 0 - RectangleSize \div 2, RectangleSize,
                                 RectangleSize, 0))
    /\ UNCHANGED <<mode, erase_mode, is_drawing, drawing_path, smoothed_path,
                   is_erasing, erased_rectangles, mouse_down,
                   overlap_state, auto_overlap>>

\* MainWindow.add_triangle (a button) with the cursor at (cx, 0)
MainWindow_add_triangle(cx) ==
    /\ ~mouse_down
    /\ Leaves("add_triangle",
              add_triangle(World, cx - RectangleSize \div 2, 0 - RectangleSize \div 2,
                           RectangleSize))
    /\ UNCHANGED <<mode, erase_mode, is_drawing, drawing_path, smoothed_path,
                   is_erasing, erased_rectangles, mouse_down,
                   overlap_state, auto_overlap>>

\* WorkspaceView.erase_rectangles_at_position: the shapes removed, topmost first
erase_rectangles_at_position(p) == items_at(tiles, scene, p)

\* WorkspaceView.mousePressEvent, erase branch
mousePressEvent_erase(p) ==
    /\ ~mouse_down
    /\ erase_mode
    /\ LET erased == erase_rectangles_at_position(p)
       IN /\ Leaves("press_erase", removeItems(World, Range(erased)))
          /\ erased_rectangles' = erased
    /\ is_erasing' = TRUE
    /\ mouse_down' = TRUE
    /\ UNCHANGED <<mode, erase_mode, is_drawing, drawing_path, smoothed_path,
                   overlap_state, auto_overlap>>

\* WorkspaceView.mousePressEvent, circle branch
mousePressEvent_circle ==
    /\ ~mouse_down
    /\ ~erase_mode
    /\ mode = "circle"
    /\ IF items_at(tiles, scene, CircleCentre) = <<>>
       THEN Leaves("circle",
                   record_new_rectangles(create_circle_of_rectangles(World, CircleCentre)))
       ELSE Leaves("idle", World)
    /\ mouse_down' = TRUE
    /\ UNCHANGED <<mode, erase_mode, is_drawing, drawing_path, smoothed_path,
                   is_erasing, erased_rectangles, overlap_state,
                   auto_overlap>>

\* WorkspaceView.mousePressEvent, drawing branch, at the point p
mousePressEvent_draw(p) ==
    /\ ~mouse_down
    /\ ~erase_mode
    /\ mode \in DrawModes
    /\ IF items_at(tiles, scene, p) = <<>>
       THEN /\ is_drawing' = TRUE
            /\ drawing_path' = <<p>>
            /\ Leaves("idle", World)
       ELSE /\ UNCHANGED <<is_drawing, drawing_path>>
            /\ Leaves("idle", World)
    /\ mouse_down' = TRUE
    /\ UNCHANGED <<mode, erase_mode, smoothed_path, is_erasing, erased_rectangles,
                   overlap_state, auto_overlap>>

\* WorkspaceView.mouseMoveEvent, erase branch
mouseMoveEvent_erase(p) ==
    /\ erase_mode /\ is_erasing
    /\ LET erased == erase_rectangles_at_position(p)
       IN /\ erased # <<>>
          /\ Leaves("move_erase", removeItems(World, Range(erased)))
          /\ erased_rectangles' = erased_rectangles \o erased
    /\ UNCHANGED <<mode, erase_mode, is_drawing, drawing_path, smoothed_path,
                   is_erasing, mouse_down, overlap_state, auto_overlap>>

\* WorkspaceView.mouseMoveEvent, drawing branch, to the point p
mouseMoveEvent_draw(p) ==
    /\ ~(erase_mode /\ is_erasing)
    /\ mode \in DrawModes /\ is_drawing
    /\ Len(drawing_path) < MaxPathLen
    /\ drawing_path' = Append(drawing_path, p)
    /\ Leaves("idle", World)
    /\ UNCHANGED <<mode, erase_mode, is_drawing, smoothed_path,
                   is_erasing, erased_rectangles, mouse_down, overlap_state,
                   auto_overlap>>

\* WorkspaceView.mouseReleaseEvent, erase branch
mouseReleaseEvent_erase ==
    /\ mouse_down
    /\ erase_mode /\ is_erasing
    /\ is_erasing' = FALSE
    /\ Leaves("release_erase",
              IF erased_rectangles # <<>>
              THEN add_to_undo_stack(World, "erase_rectangles", erased_rectangles)
              ELSE World)
    /\ erased_rectangles' = <<>>
    /\ mouse_down' = FALSE
    /\ UNCHANGED <<mode, erase_mode, is_drawing, drawing_path, smoothed_path,
                   overlap_state, auto_overlap>>

\* WorkspaceView.mouseReleaseEvent, drawing branch; an error raised while the
\* tiles are created leaves the handler before the batch is recorded and the
\* path is cleared
mouseReleaseEvent_draw ==
    /\ mouse_down
    /\ ~(erase_mode /\ is_erasing)
    /\ mode \in DrawModes /\ is_drawing
    /\ smoothed_path' = IF Len(drawing_path) >= 2 THEN smooth_path(drawing_path)
                        ELSE smoothed_path
    /\ Leaves("release_draw",
              record_new_rectangles(
                  parallel_paths_of_mode(
                      create_rectangles_along_path(World, drawing_path, mode),
                      smoothed_path')))
    /\ drawing_path' = IF last'.raised THEN drawing_path ELSE <<>>
    /\ is_drawing' = FALSE
    /\ mouse_down' = FALSE
    /\ UNCHANGED <<mode, erase_mode, is_erasing, erased_rectangles, overlap_state,
                   auto_overlap>>

\* WorkspaceView.mouseReleaseEvent, the branch left to QGraphicsView
mouseReleaseEvent_other ==
    /\ mouse_down
    /\ ~(erase_mode /\ is_erasing)
    /\ ~(mode \in DrawModes /\ is_drawing)
    /\ mouse_down' = FALSE
    /\ Leaves("idle", World)
    /\ UNCHANGED <<mode, erase_mode, is_drawing, drawing_path, smoothed_path,
                   is_erasing, erased_rectangles, overlap_state,
                   auto_overlap>>

\* WorkspaceView.delete_selected_rectangles (Key_Delete) with the topmost
\* shape at p selected
delete_selected_rectangles(p) ==
    /\ items_at(tiles, scene, p) # <<>>
    /\ Leaves("delete_selected", removeItems(World, {Head(items_at(tiles, scene, p))}))
    /\ UNCHANGED <<mode, erase_mode, is_drawing, drawing_path, smoothed_path,
                   is_erasing, erased_rectangles, mouse_down,
                   overlap_state, auto_overlap>>

\* MainWindow.clear_all; the loop removes the drawn path items as well
clear_all ==
    /\ ~mouse_down
    /\ LET shapes_to_clear == items(scene)
           W == IF shapes_to_clear # <<>>
                THEN add_to_undo_stack(World, "clear_all", shapes_to_clear)
                ELSE World
       IN Leaves("clear_all", [W EXCEPT !.scene = <<>>])
    /\ UNCHANGED <<mode, erase_mode, is_drawing, drawing_path, smoothed_path, is_erasing,
                   erased_rectangles, mouse_down, overlap_state, auto_overlap>>

\* the shapes painted red (newer = TRUE) or green (newer = FALSE), in the
\* order of scene.items()
coloured_shapes(newer) ==
    SelectSeq(items(scene),
              LAMBDA e : check_for_overlaps_with_color(tiles, scene, e) = <<TRUE, newer>>)

bulk_delete(op, action_type, shapes) ==
    /\ ~mouse_down
    /\ Leaves(op, IF shapes # <<>>
                  THEN removeItems(add_to_undo_stack(World, action_type, shapes),
                                   Range(shapes))
                  ELSE World)
    /\ UNCHANGED <<mode, erase_mode, is_drawing, drawing_path, smoothed_path,
                   is_erasing, erased_rectangles, mouse_down,
                   overlap_state, auto_overlap>>

\* MainWindow.delete_red_rectangles
delete_red_rectangles ==
    bulk_delete("delete_red", "delete_red_rectangles", coloured_shapes(TRUE))

\* MainWindow.delete_green_rectangles
delete_green_rectangles ==
    bulk_delete("delete_green", "delete_green_rectangles", coloured_shapes(FALSE))

DestroyTypes == {"clear_all", "erase_rectangles", "delete_red_rectangles",
                 "delete_green_rectangles"}

\* undo_batch putting back only the first tile of a destroy batch
undo_batch_first_tile(W, last_action) ==
    IF last_action.type = "add_rectangles"
    THEN removeItems(W, Range(last_action.rectangles))
    ELSE IF last_action.type \in DestroyTypes
    THEN [W EXCEPT !.scene = addItems(@, <<Head(last_action.rectangles)>>)]
    ELSE W

\* the workspace after the branch of undo_last_action for the popped batch
undo_batch(W, last_action) ==
    IF last_action.type = "add_rectangles"
    THEN removeItems(W, Range(last_action.rectangles))
    ELSE IF last_action.type \in DestroyTypes
    THEN [W EXCEPT !.scene = addItems(@, last_action.rectangles)]
    ELSE W

\* an undo that takes the newest shape out of the scene when the undo stack
\* is empty
undo_last_action_without_stack ==
    /\ ~mouse_down
    /\ IF undo_stack # <<>>
       THEN Leaves("undo",
                   undo_batch([World EXCEPT !.undo_stack = SubSeq(@, 1, Len(@) - 1)],
                              undo_stack[Len(undo_stack)]))
       ELSE Leaves("undo_nothing",
                   removeItems(World, IF scene = <<>> THEN {} ELSE {scene[Len(scene)]}))
    /\ UNCHANGED <<mode, erase_mode, is_drawing, drawing_path, smoothed_path,
                   is_erasing, erased_rectangles, mouse_down,
                   overlap_state, auto_overlap>>

\* an undo that leaves the batch it has undone on the undo stack
undo_last_action_keeping_the_batch ==
    /\ ~mouse_down
    /\ IF undo_stack # <<>>
       THEN Leaves("undo", undo_batch(World, undo_stack[Len(undo_stack)]))
       ELSE Leaves("undo_nothing", World)
    /\ UNCHANGED <<mode, erase_mode, is_drawing, drawing_path, smoothed_path,
                   is_erasing, erased_rectangles, mouse_down,
                   overlap_state, auto_overlap>>

\* MainWindow.undo_last_action
undo_last_action ==
    /\ ~mouse_down
    /\ IF undo_stack # <<>>
       THEN Leaves("undo",
                   undo_batch([World EXCEPT !.undo_stack = SubSeq(@, 1, Len(@) - 1)],
                              undo_stack[Len(undo_stack)]))
       ELSE Leaves("undo_nothing", World)
    /\ UNCHANGED <<mode, erase_mode, is_drawing, drawing_path, smoothed_path,
                   is_erasing, erased_rectangles, mouse_down,
                   overlap_state, auto_overlap>>

\* MainWindow.toggle_drawing_mode, toggle_parallel_mode_right,
\* toggle_half_rectangle_mode, toggle_edge_mode, toggle_circle_mode over
\* WorkspaceView.set_*_mode: the modes exclude each other, and turning on the
\* drawing, circle or edge mode turns the erase mode off
toggle_mode(m) ==
    /\ ~mouse_down
    /\ mode' = IF mode = m THEN "none" ELSE m
    /\ erase_mode' = IF mode # m /\ m \in {"drawing", "circle", "edge"} THEN FALSE
                     ELSE erase_mode
    /\ Leaves("idle", World)
    /\ UNCHANGED <<is_drawing, drawing_path, smoothed_path,
                   is_erasing, erased_rectangles, mouse_down, overlap_state,
                   auto_overlap>>

\* MainWindow.toggle_erase_mode: turning it on turns the drawing, circle and
\* edge modes off
toggle_erase_mode ==
    /\ ~mouse_down
    /\ erase_mode' = ~erase_mode
    /\ mode' = IF ~erase_mode /\ mode \in {"drawing", "circle", "edge"} THEN "none"
               ELSE mode
    /\ Leaves("idle", World)
    /\ UNCHANGED <<is_drawing, drawing_path, smoothed_path,
                   is_erasing, erased_rectangles, mouse_down, overlap_state,
                   auto_overlap>>

\* WorkspaceView.keyPressEvent, Key_D
keyPressEvent_D ==
    /\ mode' = IF mode = "drawing" THEN "none" ELSE "drawing"
    /\ Leaves("idle", World)
    /\ UNCHANGED <<erase_mode, is_drawing, drawing_path, smoothed_path,
                   is_erasing, erased_rectangles, mouse_down,
                   overlap_state, auto_overlap>>

\* tiles are created while fewer than n were created
Room(n) == Len(tiles) < n

\* a session with every handler
Next ==
    \/ Room(MaxTiles) /\ \E cx \in CursorXs : keyPressEvent_T(cx)
    \/ Room(MaxTiles) /\ \E cx \in CursorXs : MainWindow_add_triangle(cx)
    \/ \E p \in ClickPoints : mousePressEvent_erase(p)
    \/ Room(MaxTiles) /\ mousePressEvent_circle
    \/ Room(MaxTiles) /\ \E x \in PressXs : mousePressEvent_draw(<<x, DragY>>)
    \/ \E p \in ClickPoints : mouseMoveEvent_erase(p)
    \/ \E x \in DragXs : mouseMoveEvent_draw(<<x, DragY>>)
    \/ mouseReleaseEvent_erase
    \/ Room(MaxTiles) /\ mouseReleaseEvent_draw
    \/ mouseReleaseEvent_other
    \/ \E p \in ClickPoints : delete_selected_rectangles(p)
    \/ clear_all
    \/ delete_red_rectangles
    \/ delete_green_rectangles
    \/ undo_last_action
    \/ \E m \in DrawModes \cup {"circle"} : toggle_mode(m)
    \/ toggle_erase_mode
    \/ keyPressEvent_D

Spec == Init /\ [][Next]_vars

\* a session of single adds, erase drags, removals and undos, no drawing mode on
NextSingles ==
    \/ Room(MaxSingles) /\ \E cx \in CursorXs : keyPressEvent_T(cx)
    \/ Room(MaxSingles) /\ \E cx \in CursorXs : MainWindow_add_triangle(cx)
    \/ \E p \in ClickPoints : mousePressEvent_erase(p)
    \/ \E p \in ClickPoints : mouseMoveEvent_erase(p)
    \/ mouseReleaseEvent_erase
    \/ \E p \in ClickPoints : delete_selected_rectangles(p)
    \/ clear_all
    \/ delete_red_rectangles
    \/ delete_green_rectangles
    \/ undo_last_action
    \/ toggle_erase_mode

SpecSingles == Init /\ [][NextSingles]_vars

----------------------------------------------------------------------------
(* CSV export and import.  A field of a row is the text of a CSV cell: an    *)
(* integer literal, a decimal literal, the empty text or some other text;    *)
(* v is the number written, in hundredths except for the serial number.      *)
(* The three colour columns are not modelled; cols is the length of the row. *)

IntField(v) == [t |-> "int", v |-> v]
FloatField(v) == [t |-> "float", v |-> v]
EmptyField == [t |-> "empty", v |-> 0]
TextField == [t |-> "text", v |-> 0]

\* rect_type of save_array_to_csv (the limits are 40 and 20 scene units)
rect_type(width, height) ==
    IF width >= 4000 /\ height >= 4000 THEN "Regular"
    ELSE IF width >= 2000 /\ height >= 2000 THEN "Half"
    ELSE "Small"

\* the row save_array_to_csv writes for a tile: for a rectangle x is
\* pos.x() + rect.x(), for a triangle pos.x(); the numbers other than the
\* serial number are written as Python writes a float
csv_row(t) ==
    IF t.kind = "Rectangle"
    THEN [cols |-> 10, serial |-> IntField(t.serial_number),
          type |-> rect_type(t.w, t.h),
          x |-> FloatField(t.px + (t.x - t.px)), y |-> FloatField(t.py + (t.y - t.py)),
          width |-> FloatField(t.w), height |-> FloatField(t.h),
          rotation |-> FloatField(t.rotation)]
    ELSE [cols |-> 10, serial |-> IntField(t.serial_number), type |-> "Triangle",
          x |-> FloatField(t.px), y |-> FloatField(t.py),
          width |-> FloatField(t.w), height |-> FloatField(t.w),
          rotation |-> FloatField(t.rotation)]

\* save_array_to_csv writing rect.x() without pos.x() for a rectangle
csv_rows_without_pos(ts, sc) ==
    [i \in 1..Len(sc) |->
        [csv_row(ts[items(sc)[i]]) EXCEPT
            !.x = IF ts[items(sc)[i]].kind = "Rectangle"
                  THEN FloatField(ts[items(sc)[i]].x - ts[items(sc)[i]].px) ELSE @]]

\* the rows save_array_to_csv writes below the header, in the order of
\* scene.items()
csv_rows(ts, sc) == [i \in 1..Len(sc) |-> csv_row(ts[items(sc)[i]])]

\* int(field) raises ValueError unless the field is an integer literal
int_parses(field) == field.t = "int"
\* float(field) reads an integer or a decimal literal
float_parses(field) == field.t \in {"int", "float"}

\* the row gets through the length test and the parsing of
\* import_array_from_csv: an empty serial number or rotation reads as 0
row_parses(row) ==
    /\ row.cols >= 10
    /\ row.serial.t = "empty" \/ int_parses(row.serial)
    /\ float_parses(row.x) /\ float_parses(row.y)
    /\ float_parses(row.width) /\ float_parses(row.height)
    /\ row.rotation.t = "empty" \/ float_parses(row.rotation)

\* the shape the import adds for a parsed row, before its serial number and
\* rotation are set
added_shape(W, row) ==
    IF row.type = "Triangle"
    THEN add_triangle(W, row.x.v, row.y.v, row.width.v)
    ELSE add_rectangle(W, row.x.v, row.y.v, row.width.v, row.height.v, 0)

\* the serial number of the row overrides the one the constructor gave, the
\* counter of the shape's class is put past it, the rotation is set
with_row_values(W, row) ==
    [W EXCEPT !.tiles[Len(W.tiles)].serial_number = row.serial.v,
              !.tiles[Len(W.tiles)].rotation = row.rotation.v,
              !.tri_next = IF row.type = "Triangle" /\ row.serial.v >= @
                           THEN row.serial.v + 1 ELSE @,
              !.rect_next = IF row.type # "Triangle" /\ row.serial.v >= @
                            THEN row.serial.v + 1 ELSE @,
              !.imported = @ + 1]

\* the body of the loop of import_array_from_csv for one row
import_row(W, row) ==
    IF row_parses(row) THEN with_row_values(added_shape(W, row), row) ELSE W

\* the loop of import_array_from_csv leaving the file at the first row it skips
RECURSIVE import_rows_until_skip(_, _, _)
import_rows_until_skip(W, rows, i) ==
    IF i > Len(rows) \/ ~row_parses(rows[i]) THEN W
    ELSE import_rows_until_skip(import_row(W, rows[i]), rows, i + 1)

\* the loop of import_array_from_csv over the rows below the header
RECURSIVE import_rows(_, _, _)
import_rows(W, rows, i) ==
    IF i > Len(rows) THEN W
    ELSE import_rows(import_row(W, rows[i]), rows, i + 1)

\* MainWindow.save_array_to_csv
save_array_to_csv ==
    /\ ~mouse_down
    /\ Leaves("save_csv", [World EXCEPT !.csv_file = csv_rows(tiles, scene)])
    /\ UNCHANGED <<mode, erase_mode, is_drawing, drawing_path, smoothed_path,
                   is_erasing, erased_rectangles, mouse_down,
                   overlap_state, auto_overlap>>

\* MainWindow.import_array_from_csv on a file with the rows `rows` below its
\* header
import_array_from_csv(rows) ==
    /\ ~mouse_down
    /\ Leaves("import", import_rows([World EXCEPT !.read = rows], rows, 1))
    /\ UNCHANGED <<mode, erase_mode, is_drawing, drawing_path, smoothed_path,
                   is_erasing, erased_rectangles, mouse_down,
                   overlap_state, auto_overlap>>

\* the topmost tile at p is dragged by d with no mode on (the tiles are
\* ItemIsMovable): its pos() changes by d
item_moved(p, d) ==
    /\ ~mouse_down
    /\ mode = "none" /\ ~erase_mode
    /\ items_at(tiles, scene, p) # <<>>
    /\ Leaves("move",
              [World EXCEPT !.tiles[Head(items_at(tiles, scene, p))] =
                  [@ EXCEPT !.x = @ + d[1], !.y = @ + d[2],
                            !.px = @ + d[1], !.py = @ + d[2]]])
    /\ UNCHANGED <<mode, erase_mode, is_drawing, drawing_path, smoothed_path,
                   is_erasing, erased_rectangles, mouse_down,
                   overlap_state, auto_overlap>>

\* rows of hand-written CSV files: a row of the tile size at y = -5 with the
\* given cells
CsvRow(cols, serial, type, x, width, rotation) ==
    [cols |-> cols, serial |-> serial, type |-> type, x |-> x,
     y |-> FloatField(0 - RectangleSize \div 2), width |-> width,
     height |-> FloatField(RectangleSize), rotation |-> rotation]

\* rows the import reads: a rectangle, a triangle, a turned rectangle written
\* with integer literals, a row without serial number and rotation
ReadRows ==
    {CsvRow(10, IntField(3), "Small", FloatField(-500), FloatField(RectangleSize),
            FloatField(0)),
     CsvRow(10, IntField(2), "Triangle", FloatField(100), FloatField(RectangleSize),
            FloatField(0)),
     CsvRow(10, IntField(1), "Regular", IntField(-500), IntField(RectangleSize),
            IntField(90)),
     CsvRow(10, EmptyField, "Small", FloatField(100), FloatField(RectangleSize),
            EmptyField)}

\* rows the import skips: too short, a serial number that is a text or a
\* decimal, an x that is a text, an empty width, a rotation that is a text
SkippedRows ==
    {CsvRow(9, IntField(5), "Small", FloatField(-500), FloatField(RectangleSize),
            FloatField(0)),
     CsvRow(10, TextField, "Small", FloatField(-500), FloatField(RectangleSize),
            FloatField(0)),
     CsvRow(10, FloatField(5), "Triangle", FloatField(-500), FloatField(RectangleSize),
            FloatField(0)),
     CsvRow(10, IntField(5), "Small", TextField, FloatField(RectangleSize),
            FloatField(0)),
     CsvRow(10, IntField(5), "Triangle", FloatField(-500), EmptyField, FloatField(0)),
     CsvRow(10, IntField(5), "Small", FloatField(-500), FloatField(RectangleSize),
            TextField)}

\* the hand-written files: one row, or a skipped row before or after a
\* triangle row
CsvFiles ==
    {<<r>> : r \in ReadRows \cup SkippedRows}
        \cup {<<a, b>> : a \in SkippedRows, b \in {r \in ReadRows : r.type = "Triangle"}}
        \cup {<<b, a>> : a \in SkippedRows, b \in {r \in ReadRows : r.type = "Triangle"}}

\* x of the left edge a dragged tile is dropped at
MoveXs == {-700, -500}

\* x of the cursor for the single adds of the CSV session
CsvCursorXs == {0}

\* a session of single adds, moves, exports, imports and clear-all
NextCsv ==
    \/ Room(MaxCsvAdds) /\ \E cx \in CsvCursorXs : keyPressEvent_T(cx)
    \/ Room(MaxCsvAdds) /\ \E cx \in CsvCursorXs : MainWindow_add_triangle(cx)
    \/ \E p \in ClickPoints, tx \in MoveXs :
          /\ items_at(tiles, scene, p) # <<>>
          /\ item_moved(p, <<tx - tiles[Head(items_at(tiles, scene, p))].x, 0>>)
    \/ save_array_to_csv
    \/ Room(MaxCsvTiles) /\ \E rows \in CsvFiles \cup {csv_file} :
          import_array_from_csv(rows)
    \/ clear_all

SpecCsv == Init /\ [][NextCsv]_vars

----------------------------------------------------------------------------
(* tessera1_1: overlap states and the removal of overlapping rectangles *)

\* the result of ScalableRectangle.check_for_overlaps of tile id, decided at
\* the first colliding item of the list `found` (all z values are equal)
overlap_position_from(ts, id, found) ==
    IF found = <<>> THEN <<FALSE, "none">>
    ELSE <<TRUE, IF ts[id].serial_number > ts[Head(found)].serial_number
                 THEN "top" ELSE "bottom">>

\* ScalableRectangle.check_for_overlaps
check_for_overlaps(ts, sc, id) ==
    overlap_position_from(ts, id, colliding_items(ts, sc, id))

\* the inner loop of remove_overlapping_rectangles listing a colliding item
\* although it is listed already
RECURSIVE mark_colliding_listed_again(_, _, _, _)
mark_colliding_listed_again(ts, rect, found, to_remove) ==
    IF found = <<>> THEN to_remove
    ELSE IF ts[rect].serial_number > ts[Head(found)].serial_number
    THEN Append(to_remove, rect)
    ELSE mark_colliding_listed_again(ts, rect, Tail(found),
                                     Append(to_remove, Head(found)))

\* the inner loop of remove_overlapping_rectangles with the comparison of the
\* serial numbers turned round: the older tile of a pair is listed
RECURSIVE mark_colliding_older_listed(_, _, _, _)
mark_colliding_older_listed(ts, rect, found, to_remove) ==
    IF found = <<>> THEN to_remove
    ELSE IF Head(found) \in Range(to_remove)
    THEN mark_colliding_older_listed(ts, rect, Tail(found), to_remove)
    ELSE IF ts[rect].serial_number < ts[Head(found)].serial_number
    THEN Append(to_remove, rect)
    ELSE mark_colliding_older_listed(ts, rect, Tail(found),
                                     Append(to_remove, Head(found)))

\* the inner loop of remove_overlapping_rectangles over the colliding nearby
\* items `found` of rect: rect is listed, and the loop left, at the first
\* unlisted item older than rect; the unlisted items met before are listed
RECURSIVE mark_colliding(_, _, _, _)
mark_colliding(ts, rect, found, to_remove) ==
    IF found = <<>> THEN to_remove
    ELSE IF Head(found) \in Range(to_remove)
    THEN mark_colliding(ts, rect, Tail(found), to_remove)
    ELSE IF ts[rect].serial_number > ts[Head(found)].serial_number
    THEN Append(to_remove, rect)
    ELSE mark_colliding(ts, rect, Tail(found), Append(to_remove, Head(found)))

\* the outer loop of remove_overlapping_rectangles, from rectangles[k] on
RECURSIVE sweep_rectangles(_, _, _, _, _)
sweep_rectangles(ts, sc, rectangles, k, to_remove) ==
    IF k > Len(rectangles) THEN to_remove
    ELSE sweep_rectangles(ts, sc, rectangles, k + 1,
             IF /\ rectangles[k] \notin Range(to_remove)
                /\ check_for_overlaps(ts, sc, rectangles[k])[1]
             THEN mark_colliding(ts, rectangles[k],
                                 colliding_items(ts, sc, rectangles[k]), to_remove)
             ELSE to_remove)

\* the end of remove_overlapping_rectangles: the listed tiles leave the scene
remove_listed(W, to_remove) ==
    [removeItems(W, Range(to_remove)) EXCEPT !.cleaned = to_remove]

\* WorkspaceView.remove_overlapping_rectangles; it returns len(W.cleaned)
remove_overlapping_rectangles(W) ==
    IF Len(items(W.scene)) < 2 THEN W
    ELSE remove_listed(W, sweep_rectangles(W.tiles, W.scene, items(W.scene), 1, <<>>))

\* ScalableRectangle.set_overlap_state
set_overlap_state(ov, id, state) ==
    [top |-> IF state = "top" THEN ov.top \cup {id} ELSE ov.top \ {id},
     bottom |-> IF state = "bottom" THEN ov.bottom \cup {id} ELSE ov.bottom \ {id}]

\* ScalableRectangle.clear_overlap_state for the tiles of S
clear_overlap_states(ov, S) == [top |-> ov.top \ S, bottom |-> ov.bottom \ S]

\* the states detect_and_color_overlaps sets for one overlapping pair
color_pair(ts, ov, rect1, rect2) ==
    IF ts[rect1].serial_number > ts[rect2].serial_number
    THEN set_overlap_state(set_overlap_state(ov, rect1, "top"), rect2, "bottom")
    ELSE set_overlap_state(set_overlap_state(ov, rect2, "top"), rect1, "bottom")

\* the pairs (i, j), i < j, of detect_and_color_overlaps in their order
RECURSIVE color_pairs(_, _, _, _, _)
color_pairs(ts, rectangles, i, j, ov) ==
    IF i >= Len(rectangles) THEN ov
    ELSE IF j > Len(rectangles) THEN color_pairs(ts, rectangles, i + 1, i + 2, ov)
    ELSE color_pairs(ts, rectangles, i, j + 1,
             IF collidesWithItem(ts[rectangles[i]], ts[rectangles[j]])
             THEN color_pair(ts, ov, rectangles[i], rectangles[j])
             ELSE ov)

\* WorkspaceView.detect_and_color_overlaps: with fewer than two rectangles the
\* states stay as they are
detect_and_color_overlaps(ts, sc, ov) ==
    IF Len(sc) < 2 THEN ov
    ELSE color_pairs(ts, items(sc), 1, 2, clear_overlap_states(ov, Range(sc)))

----------------------------------------------------------------------------
(* tessera1_1: collision-avoiding placement *)

\* (cos, sin) of the angle, in thousandths
direction_of(angle_degrees) ==
    CASE angle_degrees = 0 -> <<1000, 0>>
      [] angle_degrees = 90 -> <<0, 1000>>
      [] angle_degrees = -90 -> <<0, -1000>>
      [] angle_degrees = 45 -> <<707, 707>>
      [] angle_degrees = 135 -> <<-707, 707>>
      [] angle_degrees = -45 -> <<707, -707>>
      [] angle_degrees = -135 -> <<-707, -707>>
      [] OTHER -> <<-1000, 0>>

\* WorkspaceView.check_overlap_at_position: the temporary rectangle collides
\* with a rectangle of the scene that is not in rectangles_before_current_draw
check_overlap_at_position(W, before, x, y, width, height, angle_degrees) ==
    \E e \in Range(W.scene) \ before :
        shapes_meet([kind |-> "Rectangle", serial_number |-> 0, x |-> x, y |-> y,
                     w |-> width, h |-> height, rotation |-> angle_degrees,
                     px |-> 0, py |-> 0],
                    W.tiles[e], (TempPenWidth + PenWidth) \div 2)

\* (x, y) moved by k * offset_distance along the vector d
offset_position(x, y, d, k, offset_distance) ==
    <<x + (k * d[1] * offset_distance) \div 1000,
      y + (k * d[2] * offset_distance) \div 1000>>

\* the four positions one attempt tries: forward, backward and both sideways
attempt_positions(x, y, d, offset_distance) ==
    <<offset_position(x, y, d, 1, offset_distance),
      offset_position(x, y, d, -1, offset_distance),
      offset_position(x, y, <<0 - d[2], d[1]>>, 1, offset_distance),
      offset_position(x, y, <<0 - d[2], d[1]>>, -1, offset_distance)>>

\* the positions of the list that are free, in their order
free_positions(W, before, positions, width, height, angle_degrees) ==
    SelectSeq(positions,
              LAMBDA q : ~check_overlap_at_position(W, before, q[1], q[2], width,
                                                    height, angle_degrees))

\* the first position of the list if there is one, else the attempts go on
RECURSIVE try_attempts(_, _, _, _, _, _, _, _)
first_or_next(free, W, before, x, y, width, height, angle_degrees, attempt) ==
    IF free # <<>> THEN Head(free)
    ELSE try_attempts(W, before, x, y, width, height, angle_degrees, attempt + 1)

\* the loop of find_non_overlapping_position over the attempts (step_size =
\* rectangle_size * 0.1)
try_attempts(W, before, x, y, width, height, angle_degrees, attempt) ==
    IF attempt >= MaxAttempts THEN <<x, y>>
    ELSE first_or_next(
             free_positions(W, before,
                 attempt_positions(x, y, direction_of(angle_degrees),
                                   (RectangleSize \div 10) * (attempt + 1)),
                 width, height, angle_degrees),
             W, before, x, y, width, height, angle_degrees, attempt)

\* WorkspaceView.find_non_overlapping_position
find_non_overlapping_position(W, before, x, y, width, height, angle_degrees) ==
    IF ~check_overlap_at_position(W, before, x, y, width, height, angle_degrees)
    THEN <<x, y>>
    ELSE try_attempts(W, before, x, y, width, height, angle_degrees, 0)

\* one tile of the placing loop of tessera1_1, at the position found for it
place_found(W, final, angle_degrees) ==
    add_rectangle(W, final[1], final[2], RectangleSize, RectangleSize, angle_degrees)

\* the tile of the point `at` of the path
place_avoiding(W, before, at, angle_degrees) ==
    place_found(W,
        find_non_overlapping_position(W, before, at[1] - RectangleSize \div 2,
            at[2] - RectangleSize \div 2, RectangleSize, RectangleSize,
            angle_degrees),
        angle_degrees)

\* the placing loop of create_rectangles_along_specific_path of tessera1_1
RECURSIVE place_avoiding_from(_, _, _, _, _, _, _)
place_avoiding_from(W, before, path, seg, current_distance, target_distance, spacing) ==
    IF seg > Len(path) - 1 THEN W
    ELSE IF target_distance <= current_distance + Dist(path[seg], path[seg + 1])
    THEN place_avoiding_from(
             IF Dist(path[seg], path[seg + 1]) > 0
             THEN place_avoiding(W, before,
                      Interpolate(path[seg], path[seg + 1],
                                  target_distance - current_distance,
                                  Dist(path[seg], path[seg + 1])),
                      calculate_smooth_angle(path, seg,
                          target_distance - current_distance,
                          Dist(path[seg], path[seg + 1]),
                          Interpolate(path[seg], path[seg + 1],
                                      target_distance - current_distance,
                                      Dist(path[seg], path[seg + 1]))))
             ELSE W,
             before, path, seg, current_distance, target_distance + spacing, spacing)
    ELSE place_avoiding_from(W, before, path, seg + 1,
             current_distance + Dist(path[seg], path[seg + 1]), target_distance,
             spacing)

\* tessera1_1, WorkspaceView.create_rectangles_along_specific_path: the
\* spacing is rectangle_size * rectangle_spacing
create_rectangles_along_specific_path_11(W, before, path) ==
    IF Len(path) < 2 THEN W
    ELSE place_avoiding_from(W, before, path, 1, 0, 0, UserSpacing)

\* tessera1_1, WorkspaceView.create_rectangles_along_path in the single line
\* mode
create_rectangles_along_path_11(W, before, path) ==
    IF Len(path) < 2 THEN W
    ELSE [create_rectangles_along_specific_path_11(
              [W EXCEPT !.batch_operation = TRUE], before, smooth_path(path))
          EXCEPT !.batch_operation = FALSE]

----------------------------------------------------------------------------
(* tessera1_1: handlers.  The single add, the press and the move of a drawing *)
(* gesture and clear_all have the code of tessera1_2 modelled above.          *)

\* the workspace of mouseReleaseEvent after the rectangles of the path were
\* created and their batch recorded; rectangles_before_current_draw holds the
\* rectangles of the scene at the release
drawn_rectangles ==
    record_new_rectangles(
        create_rectangles_along_path_11(World, Range(scene), drawing_path))

\* tessera1_1, WorkspaceView.mouseReleaseEvent, drawing branch in the single
\* line mode: with the automatic removal on, the overlapping rectangles are
\* removed, else the overlap states are set
mouseReleaseEvent_draw_11 ==
    /\ mouse_down
    /\ ~(erase_mode /\ is_erasing)
    /\ mode = "drawing" /\ is_drawing
    /\ smoothed_path' = IF Len(drawing_path) >= 2 THEN smooth_path(drawing_path)
                        ELSE smoothed_path
    /\ IF auto_overlap
       THEN /\ Leaves("release_draw", remove_overlapping_rectangles(drawn_rectangles))
            /\ overlap_state' = overlap_state
       ELSE /\ Leaves("release_draw", drawn_rectangles)
            /\ overlap_state' = detect_and_color_overlaps(tiles', scene', overlap_state)
    /\ drawing_path' = <<>>
    /\ is_drawing' = FALSE
    /\ mouse_down' = FALSE
    /\ UNCHANGED <<mode, erase_mode, is_erasing, erased_rectangles, auto_overlap>>

\* tessera1_1, MainWindow.remove_overlapping_rectangles
MainWindow_remove_overlapping_rectangles ==
    /\ ~mouse_down
    /\ Leaves("remove_overlapping", remove_overlapping_rectangles(World))
    /\ UNCHANGED <<mode, erase_mode, is_drawing, drawing_path, smoothed_path,
                   is_erasing, erased_rectangles, mouse_down,
                   overlap_state, auto_overlap>>

\* tessera1_1, the auto_overlap_checkbox is clicked (MainWindow.toggle_auto_overlap)
toggle_auto_overlap ==
    /\ ~mouse_down
    /\ auto_overlap' = ~auto_overlap
    /\ Leaves("idle", World)
    /\ UNCHANGED <<mode, erase_mode, is_drawing, drawing_path, smoothed_path,
                   is_erasing, erased_rectangles, mouse_down, overlap_state>>

\* the rectangles of scene.items() whose overlap_state is in the set `marked`
rectangles_in_state(marked) == SelectSeq(items(scene), LAMBDA e : e \in marked)

\* MainWindow.delete_top_rectangles and delete_bottom_rectangles on the list
\* rectangles_to_remove
delete_in_state(op, rectangles_to_remove) ==
    /\ ~mouse_down
    /\ IF rectangles_to_remove # <<>>
       THEN /\ Leaves(op, add_to_undo_stack(
                              removeItems(World, Range(rectangles_to_remove)),
                              "erase_rectangles", rectangles_to_remove))
            /\ overlap_state' = detect_and_color_overlaps(tiles', scene', overlap_state)
       ELSE /\ Leaves(op, World)
            /\ overlap_state' = overlap_state
    /\ UNCHANGED <<mode, erase_mode, is_drawing, drawing_path, smoothed_path,
                   is_erasing, erased_rectangles, mouse_down, auto_overlap>>

\* tessera1_1, MainWindow.delete_top_rectangles
delete_top_rectangles ==
    delete_in_state("delete_top", rectangles_in_state(overlap_state.top))

\* tessera1_1, MainWindow.delete_bottom_rectangles
delete_bottom_rectangles ==
    delete_in_state("delete_bottom", rectangles_in_state(overlap_state.bottom))

\* the workspace after the branch of undo_last_action of tessera1_1 for the
\* popped batch
undo_batch_11(W, last_action) ==
    IF last_action.type = "add_rectangles"
    THEN removeItems(W, Range(last_action.rectangles))
    ELSE IF last_action.type \in {"clear_all", "erase_rectangles"}
    THEN [W EXCEPT !.scene = addItems(@, last_action.rectangles)]
    ELSE W

\* tessera1_1, MainWindow.undo_last_action: every branch sets the overlap
\* states again
undo_last_action_11 ==
    /\ ~mouse_down
    /\ IF undo_stack # <<>>
       THEN /\ Leaves("undo",
                   undo_batch_11([World EXCEPT !.undo_stack = SubSeq(@, 1, Len(@) - 1)],
                                 undo_stack[Len(undo_stack)]))
            /\ overlap_state' =
                 IF undo_stack[Len(undo_stack)].type
                        \in {"add_rectangles", "clear_all", "erase_rectangles"}
                 THEN detect_and_color_overlaps(tiles', scene', overlap_state)
                 ELSE overlap_state
       ELSE /\ Leaves("undo_nothing", World)
            /\ overlap_state' = overlap_state
    /\ UNCHANGED <<mode, erase_mode, is_drawing, drawing_path, smoothed_path,
                   is_erasing, erased_rectangles, mouse_down, auto_overlap>>

\* tessera1_1, MainWindow.toggle_drawing_mode over set_single_line_mode and
\* clear_all_drawing_modes
toggle_drawing_mode_11 ==
    /\ ~mouse_down
    /\ mode' = IF mode = "drawing" THEN "none" ELSE "drawing"
    /\ erase_mode' = FALSE
    /\ Leaves("idle", World)
    /\ UNCHANGED <<is_drawing, drawing_path, smoothed_path, is_erasing,
                   erased_rectangles, mouse_down, overlap_state, auto_overlap>>

\* a session of tessera1_1: single adds, drawing gestures in the single line
\* mode, the removal of overlapping rectangles, removals by overlap state,
\* clear-all and undo
Next11 ==
    \/ Room(MaxTiles11) /\ \E cx \in CursorXs11 : keyPressEvent_T(cx)
    \/ Room(MaxTiles11) /\ \E x \in PressXs11 : mousePressEvent_draw(<<x, DragY11>>)
    \/ \E x \in DragXs11 : mouseMoveEvent_draw(<<x, DragY11>>)
    \/ Room(MaxTiles11) /\ mouseReleaseEvent_draw_11
    \/ mouseReleaseEvent_other
    \/ MainWindow_remove_overlapping_rectangles
    \/ toggle_auto_overlap
    \/ delete_top_rectangles
    \/ delete_bottom_rectangles
    \/ clear_all
    \/ undo_last_action_11
    \/ toggle_drawing_mode_11

Spec11 == Init /\ [][Next11]_vars

----------------------------------------------------------------------------
(* A session of drawing gestures, drawn from left to right at the height    *)
(* DragY, in the four placement modes *)

\* where the button goes down: at the start of the drags, and to the right of
\* every drag, where a gesture is a click
DrawPressXs == {0, 2000}
\* where a drag goes on to: 1 unit and 12 units right of the start
DrawDragXs == {100, 1200}

NextDraw ==
    \/ Room(MaxDrawn) /\ \E x \in DrawPressXs : mousePressEvent_draw(<<x, DragY>>)
    \/ \E x \in DrawDragXs :
          /\ drawing_path # <<>>
          /\ x > drawing_path[Len(drawing_path)][1]
          /\ mouseMoveEvent_draw(<<x, DragY>>)
    \/ mouseReleaseEvent_draw
    \/ mouseReleaseEvent_other
    \/ \E m \in DrawModes : toggle_mode(m)
    \/ undo_last_action

SpecDraw == Init /\ [][NextDraw]_vars

----------------------------------------------------------------------------
(* The placement functions on their own: the path and the spacing           *)
(* multiplier are drawn at the start, each function is applied to them once  *)

\* a path has up to MaxProbeLen points
MaxProbeLen == 3
\* a lane of at most MaxLaneTiles spacings is filled
MaxLaneTiles == 12
\* the lane loop runs for up to MaxLanes lines on each side
MaxLanes == 10

\* the points of the paths: on a line from left to right, and one off it
PlacePoints == {<<0, 0>>, <<300, 0>>, <<1700, 0>>, <<2400, 0>>, <<2400, 1500>>}
\* the straight horizontal drag from (0, 0) to (100, 0)
LongDrag == << <<0, 0>>, <<10000, 0>> >>
PathInputs ==
    {LongDrag} \cup UNION {[1..n -> PlacePoints] : n \in 2..MaxProbeLen}
\* the multipliers update_rectangle_spacing lets through lie between 0.1 and
\* 10.0
SpacingInputs == {50, 100, 116, 250}

\* rectangle_size * rectangle_spacing in hundredths
user_spacing_of(multiplier) == (RectangleSize * multiplier) \div 100

\* total_distance: the arc length of the path up to its point k
RECURSIVE arc_length(_, _)
arc_length(path, k) ==
    IF k <= 1 THEN 0 ELSE arc_length(path, k - 1) + Dist(path[k - 1], path[k])

\* tessera1_1 (and tessera.py), create_rectangles_along_specific_path with
\* the spacing rectangle_size * rectangle_spacing
create_rectangles_along_specific_path_spaced(W, before, path, user_spacing) ==
    IF Len(path) < 2 THEN W
    ELSE place_avoiding_from(W, before, path, 1, 0, 0, user_spacing)

InitPlace ==
    /\ Constructed
    /\ path_in \in PathInputs
    /\ spacing_in \in SpacingInputs
    /\ arc_length(path_in, Len(path_in)) <= MaxLaneTiles * user_spacing_of(spacing_in)
    /\ resample_out = <<>>
    /\ lines_in \in 1..MaxLanes
    /\ lines_in # ParallelLinesCount => path_in = LongDrag /\ spacing_in = 116
    /\ lane_out = <<>>

\* WorkspaceView.resample_path_by_distance(path_in)
resample_call ==
    /\ resample_out = <<>> /\ lane_out = <<>>
    /\ resample_out' = resample_path_by_distance(path_in, user_spacing_of(spacing_in))
    /\ UNCHANGED <<tiles, scene, undo_stack, rect_next, tri_next, batch_operation,
                   mode, erase_mode, is_drawing, drawing_path, smoothed_path,
                   is_erasing, erased_rectangles, mouse_down, overlap_state,
                   auto_overlap, csv_file, path_in, spacing_in, lines_in, lane_out,
                   is_zooming, cached_overlap_info, paint_out, loop, last>>

\* tessera1_2, WorkspaceView.create_rectangles_along_specific_path(path_in)
\* inside a batch operation
place_call_12 ==
    /\ tiles = <<>>
    /\ Leaves("place_12",
              batch_off(create_rectangles_along_specific_path(
                            [World EXCEPT !.batch_operation = TRUE], path_in,
                            user_spacing_of(spacing_in))))
    /\ UNCHANGED <<mode, erase_mode, is_drawing, drawing_path, smoothed_path,
                   is_erasing, erased_rectangles, mouse_down, overlap_state,
                   auto_overlap>>

\* tessera1_1, WorkspaceView.create_rectangles_along_specific_path(path_in)
\* inside a batch operation
place_call_11 ==
    /\ tiles = <<>>
    /\ Leaves("place_11",
              batch_off(create_rectangles_along_specific_path_spaced(
                            [World EXCEPT !.batch_operation = TRUE], {}, path_in,
                            user_spacing_of(spacing_in))))
    /\ UNCHANGED <<mode, erase_mode, is_drawing, drawing_path, smoothed_path,
                   is_erasing, erased_rectangles, mouse_down, overlap_state,
                   auto_overlap>>

\* tessera.py, create_parallel_paths: parallel_distance of line_index, with
\* parallel_distance_multiplier = 0.7, second and third_line_spacing = 1.5, 1.7
parallel_distance_tessera(line_index) ==
    CASE line_index = 1 -> (RectangleSize * 70) \div 100
      [] line_index = 2 -> (((RectangleSize * 70) \div 100) * 2 * 150) \div 100
      [] line_index = 3 -> (((RectangleSize * 70) \div 100) * 3 * 170) \div 100
      [] OTHER -> (((RectangleSize * 70) \div 100) * (36 + (line_index - 3) * 15)) \div 10

\* tessera1_2, the loop over line_index of create_parallel_paths
lanes_call_12 ==
    /\ lane_out = <<>> /\ tiles = <<>> /\ resample_out = <<>>
    /\ lane_out' = [line_index \in 1..lines_in |-> parallel_distance(line_index)]
    /\ UNCHANGED <<tiles, scene, undo_stack, rect_next, tri_next, batch_operation,
                   mode, erase_mode, is_drawing, drawing_path, smoothed_path,
                   is_erasing, erased_rectangles, mouse_down, overlap_state,
                   auto_overlap, csv_file, path_in, spacing_in, resample_out,
                   lines_in, is_zooming, cached_overlap_info, paint_out, loop,
                   last>>

\* tessera.py, the loop over line_index of create_parallel_paths
lanes_call_tessera ==
    /\ lane_out = <<>> /\ tiles = <<>> /\ resample_out = <<>>
    /\ lane_out' = [line_index \in 1..lines_in |-> parallel_distance_tessera(line_index)]
    /\ UNCHANGED <<tiles, scene, undo_stack, rect_next, tri_next, batch_operation,
                   mode, erase_mode, is_drawing, drawing_path, smoothed_path,
                   is_erasing, erased_rectangles, mouse_down, overlap_state,
                   auto_overlap, csv_file, path_in, spacing_in, resample_out,
                   lines_in, is_zooming, cached_overlap_info, paint_out, loop,
                   last>>

NextPlace ==
    \/ resample_call
    \/ lanes_call_12
    \/ lanes_call_tessera
    \/ place_call_12
    \/ place_call_11

SpecPlace == InitPlace /\ [][NextPlace]_vars

----------------------------------------------------------------------------
(* The sampling loops step by step: one step is one test of the condition of  *)
(* the while loop, with the body that follows it or the move to the next       *)
(* segment                                                                     *)

\* the functions that have the loop
LoopFunctions == {"place_12", "place_11", "resample"}

\* the spacing of the function: tessera1_1 places at rectangle_size *
\* rectangle_spacing, the functions of tessera1_2 at no less than min_spacing
spacing_of(fn, user_spacing) ==
    IF fn = "place_11" THEN user_spacing ELSE target_spacing(user_spacing)

\* target_distance += spacing made only in a segment that has a length
next_target_in_segment(target_distance, spacing, segment_distance) ==
    IF segment_distance > 0 THEN target_distance + spacing ELSE target_distance

\* target_distance += spacing, the last statement of the body of the loop
next_target(target_distance, spacing, segment_distance) ==
    target_distance + spacing

\* the call of create_rectangles_along_specific_path or of
\* resample_path_by_distance on path_in, up to its loop
loop_start(fn) ==
    /\ loop.pc = "idle"
    /\ loop' = IF Len(path_in) < 2
               THEN [loop EXCEPT !.pc = "done", !.fn = fn,
                                 !.out = IF fn = "resample" THEN path_in ELSE <<>>]
               ELSE [pc |-> "loop", fn |-> fn, seg |-> 1, current_distance |-> 0,
                     target_distance |->
                         IF fn = "resample"
                         THEN spacing_of(fn, user_spacing_of(spacing_in)) ELSE 0,
                     spacing |-> spacing_of(fn, user_spacing_of(spacing_in)),
                     out |-> IF fn = "resample" THEN <<path_in[1]>> ELSE <<>>]
    /\ UNCHANGED <<tiles, scene, undo_stack, rect_next, tri_next, batch_operation,
                   mode, erase_mode, is_drawing, drawing_path, smoothed_path,
                   is_erasing, erased_rectangles, mouse_down, overlap_state,
                   auto_overlap, csv_file, path_in, spacing_in, resample_out,
                   lines_in, lane_out, is_zooming, cached_overlap_info, paint_out,
                   last>>

\* the loop after one test of its condition in the segment of length
\* segment_distance: the point of the target distance is put out and the
\* target moved on, or the next segment is taken
loop_after(l, segment_distance) ==
    IF l.target_distance <= l.current_distance + segment_distance
    THEN [l EXCEPT !.out = IF segment_distance > 0
                           THEN Append(@, Interpolate(path_in[l.seg], path_in[l.seg + 1],
                                           l.target_distance - l.current_distance,
                                           segment_distance))
                           ELSE @,
                   !.target_distance = next_target(@, l.spacing, segment_distance)]
    ELSE [l EXCEPT !.seg = @ + 1, !.current_distance = @ + segment_distance]

\* one step of the loop; after the last segment the function returns
loop_step ==
    /\ loop.pc = "loop"
    /\ loop' = IF loop.seg > Len(path_in) - 1
               THEN [loop EXCEPT !.pc = "done",
                                 !.out = IF loop.fn = "resample"
                                         THEN add_last_point(@, path_in[Len(path_in)],
                                                             loop.spacing)
                                         ELSE @]
               ELSE loop_after(loop, Dist(path_in[loop.seg], path_in[loop.seg + 1]))
    /\ UNCHANGED <<tiles, scene, undo_stack, rect_next, tri_next, batch_operation,
                   mode, erase_mode, is_drawing, drawing_path, smoothed_path,
                   is_erasing, erased_rectangles, mouse_down, overlap_state,
                   auto_overlap, csv_file, path_in, spacing_in, resample_out,
                   lines_in, lane_out, is_zooming, cached_overlap_info, paint_out,
                   last>>

NextLoop ==
    \/ \E fn \in LoopFunctions : loop_start(fn)
    \/ loop_step

\* a call is made and the interpreter goes on running it
SpecLoop == InitPlace /\ [][NextLoop]_vars /\ WF_vars(NextLoop)

----------------------------------------------------------------------------
(* Painting: the overlap classification a tile is drawn with *)

\* at most MaxPainted tiles are created in a session with paints
MaxPainted == 2
\* the drags of a gesture shorter than half the spacing
ShortDragXs == {100}

\* getattr(self, '_cached_overlap_info', None): <<>> stands for None
cached_info_of(cache, item) ==
    IF \E c \in cache : c[1] = item
    THEN (CHOOSE c \in cache : c[1] = item)[2]
    ELSE <<>>

\* paint, should_check_overlaps without the test of scene.is_zooming
should_check_overlaps_while_zooming(batch, zooming) == ~batch

\* paint: should_check_overlaps
should_check_overlaps(batch, zooming) == ~(batch \/ zooming)

\* ScalableRectangle.paint and ScalableTriangle.paint of the item of the scene:
\* the overlap_info the fill colour is chosen by
paint(item) ==
    /\ item \in Range(scene)
    /\ IF should_check_overlaps(batch_operation, is_zooming)
       THEN /\ paint_out' = [item |-> item,
                             overlap_info |-> check_for_overlaps_with_color(tiles, scene, item),
                             checked |-> TRUE]
            /\ cached_overlap_info' =
                 {c \in cached_overlap_info : c[1] # item}
                     \cup {<<item, check_for_overlaps_with_color(tiles, scene, item)>>}
       ELSE /\ paint_out' = [item |-> item,
                             overlap_info |-> cached_info_of(cached_overlap_info, item),
                             checked |-> FALSE]
            /\ cached_overlap_info' = cached_overlap_info
    /\ UNCHANGED <<tiles, scene, undo_stack, rect_next, tri_next, batch_operation,
                   mode, erase_mode, is_drawing, drawing_path, smoothed_path,
                   is_erasing, erased_rectangles, mouse_down, overlap_state,
                   auto_overlap, csv_file, path_in, spacing_in, resample_out,
                   lines_in, lane_out, is_zooming, loop, last>>

\* WorkspaceView.wheelEvent
wheelEvent ==
    /\ is_zooming' = TRUE
    /\ UNCHANGED <<tiles, scene, undo_stack, rect_next, tri_next, batch_operation,
                   mode, erase_mode, is_drawing, drawing_path, smoothed_path,
                   is_erasing, erased_rectangles, mouse_down, overlap_state,
                   auto_overlap, csv_file, path_in, spacing_in, resample_out,
                   lines_in, lane_out, cached_overlap_info, paint_out, loop, last>>

\* the QTimer.singleShot callback of the wheelEvent that came last
zoom_timer ==
    /\ is_zooming
    /\ is_zooming' = FALSE
    /\ UNCHANGED <<tiles, scene, undo_stack, rect_next, tri_next, batch_operation,
                   mode, erase_mode, is_drawing, drawing_path, smoothed_path,
                   is_erasing, erased_rectangles, mouse_down, overlap_state,
                   auto_overlap, csv_file, path_in, spacing_in, resample_out,
                   lines_in, lane_out, cached_overlap_info, paint_out, loop, last>>

\* a session with paints: single adds, a short gesture in the edge mode, undo,
\* the wheel and the paints the event loop makes between the handlers
NextPaint ==
    \/ Room(MaxPainted) /\ \E cx \in CursorXs : keyPressEvent_T(cx)
    \/ Room(MaxPainted) /\ \E cx \in CursorXs : MainWindow_add_triangle(cx)
    \/ toggle_mode("edge")
    \/ mousePressEvent_draw(<<0, DragY>>)
    \/ \E x \in ShortDragXs : mouseMoveEvent_draw(<<x, DragY>>)
    \/ mouseReleaseEvent_draw
    \/ undo_last_action
    \/ wheelEvent
    \/ zoom_timer
    \/ \E item \in Range(scene) : paint(item)

SpecPaint == Init /\ [][NextPaint]_vars

----------------------------------------------------------------------------
(* Properties *)

Live == Range(scene)
CreateTypes == {"add_rectangles", "add_triangles"}
\* the batch on top of the ledger
TopBatch(stack) == stack[Len(stack)]
\* the tiles the last handler created
LastCreated == (Len(tiles) - last.created + 1)..Len(tiles)
\* two live tiles the overlap check of either finds colliding
Collide(a, b) ==
    /\ a # b
    /\ Nearby(tiles[a], tiles[b]) /\ collidesWithItem(tiles[a], tiles[b])
    /\ Nearby(tiles[b], tiles[a]) /\ collidesWithItem(tiles[b], tiles[a])

\* C1: no two tiles ever created carry the same serial number, and a tile
\* created later has a strictly larger serial number than every tile created
\* earlier (so no serial number is used again).
C1_SerialsIncrease ==
    \A i, j \in 1..Len(tiles) :
        i < j => tiles[i].serial_number < tiles[j].serial_number

\* C2: undo of a create batch (of rectangles or of a triangle) that is the
\* most recent batch removes from the workspace exactly the tiles of that
\* batch: afterwards none of them is live and every other tile is as before.
C2_UndoOfCreateBatch ==
    [][(last'.op = "undo" /\ last'.type \in CreateTypes)
          => Range(scene') = Live \ Range(TopBatch(undo_stack).rectangles)]_vars

\* C3 as stated: undo of a destroy batch puts back exactly the tiles of the
\* batch, none of which was live, unchanged, and no other tile; and a
\* clear-all followed immediately by undo leaves the live tiles that were
\* there before the clear-all.
C3_UndoOfDestroyBatch_AnyClearAll ==
    [][/\ (last'.op = "undo" /\ last'.type \in DestroyTypes)
            => /\ Range(TopBatch(undo_stack).rectangles) \cap Live = {}
               /\ Range(scene') = Live \cup Range(TopBatch(undo_stack).rectangles)
               /\ tiles' = tiles
       /\ (last.op = "clear_all" /\ last'.op \in {"undo", "undo_nothing"})
            => Range(scene') = last.cleared]_vars

\* C3 amended: undo of a destroy batch puts back exactly the tiles of the
\* batch, none of which was live, unchanged, and no other tile; and a
\* clear-all that removed at least one tile, followed immediately by undo,
\* leaves the live tiles that were there before the clear-all.
C3_UndoOfDestroyBatch ==
    [][/\ (last'.op = "undo" /\ last'.type \in DestroyTypes)
            => /\ Range(TopBatch(undo_stack).rectangles) \cap Live = {}
               /\ Range(scene') = Live \cup Range(TopBatch(undo_stack).rectangles)
               /\ tiles' = tiles
       /\ (last.op = "clear_all" /\ last.removed > 0 /\ last'.op = "undo")
            => Range(scene') = last.cleared]_vars

\* an undo has put back the tiles of a clear-all batch
C3_Witness ==
    /\ last.op = "undo" /\ last.type = "clear_all" /\ last.restored > 1
    /\ Cardinality(Live) = last.restored

\* C4: a completed drawing gesture that creates at least one tile records
\* exactly one batch, and the batch holds all the tiles of the gesture.
C4_OneBatchPerPathGesture ==
    (last.op = "release_draw" /\ last.created > 0)
        => /\ last.pushes = 1
           /\ undo_stack # <<>>
           /\ Range(TopBatch(undo_stack).rectangles) = LastCreated

\* C5: a circle click, a single add, an erase drag, a Delete-key removal, a
\* clear-all and a bulk delete that creates or removes tiles records exactly
\* one batch, and the batch holds exactly the tiles created or removed.
C5_OneBatchPerGesture ==
    /\ (last.op \in {"circle", "add_rectangle", "add_triangle"} /\ last.created > 0)
         => /\ last.pushes = 1
            /\ undo_stack # <<>>
            /\ Range(TopBatch(undo_stack).rectangles) = LastCreated
    /\ (/\ last.op \in {"release_erase", "delete_selected", "clear_all", "delete_red",
                        "delete_green"}
        /\ last.removed > 0)
         => /\ last.pushes = 1
            /\ undo_stack # <<>>
            /\ Cardinality(Range(TopBatch(undo_stack).rectangles)) = last.removed
            /\ Range(TopBatch(undo_stack).rectangles) \cap Live = {}

\* C6: the ledger never holds more than 10 batches; a handler that records
\* batches discards only as many of the oldest batches as exceed the capacity
\* and keeps the others in their order below the new ones; undo pops the most
\* recently recorded batch.
C6_LedgerBounded ==
    [][/\ Len(undo_stack') <= UndoCapacity
       /\ last'.op # "undo"
            => /\ Len(undo_stack') = Len(undo_stack) + last'.pushes - last'.dropped
               /\ last'.dropped <= Len(undo_stack)
               /\ SubSeq(undo_stack', 1, Len(undo_stack) - last'.dropped)
                    = SubSeq(undo_stack, last'.dropped + 1, Len(undo_stack))
       /\ last'.op = "undo"
            => /\ undo_stack' = SubSeq(undo_stack, 1, Len(undo_stack) - 1)
               /\ last'.type = TopBatch(undo_stack).type]_vars

\* a batch was recorded on a full ledger, and the oldest batch discarded
C6_Witness ==
    /\ last.dropped > 0
    /\ Len(undo_stack) = UndoCapacity

\* C7: of two live tiles with different serial numbers that collide, both are
\* reported overlapping and exactly the one with the larger serial number is
\* reported newer, whatever other tiles they collide with.
C7_ClassificationOfPairs ==
    \A a, b \in Live :
        (Collide(a, b) /\ tiles[a].serial_number > tiles[b].serial_number)
            => /\ check_for_overlaps_with_color(tiles, scene, a) = <<TRUE, TRUE>>
               /\ check_for_overlaps_with_color(tiles, scene, b) = <<TRUE, FALSE>>

\* the live tiles that have the larger serial number in some collision
NewerInSomeCollision ==
    {a \in Live : \E b \in Live :
        Collide(a, b) /\ tiles[a].serial_number > tiles[b].serial_number}
\* the live tiles that have the smaller serial number in some collision
OlderInSomeCollision ==
    {a \in Live : \E b \in Live :
        Collide(a, b) /\ tiles[a].serial_number < tiles[b].serial_number}
\* the live tiles that collide with no tile
CollisionFree == {a \in Live : \A b \in Live : ~Collide(a, b)}

\* C8: the bulk delete of the newer tiles removes every live tile that has the
\* larger serial number in some collision, the bulk delete of the older tiles
\* every live tile that has the smaller one in some collision, whatever else
\* the tile collides with; the tiles that collide with no tile stay.
C8_BulkDeleteRemovesAll ==
    [][/\ last'.op = "delete_red"
            => /\ NewerInSomeCollision \cap Range(scene') = {}
               /\ CollisionFree \subseteq Range(scene')
       /\ last'.op = "delete_green"
            => /\ OlderInSomeCollision \cap Range(scene') = {}
               /\ CollisionFree \subseteq Range(scene')]_vars

\* two live tiles collide
LiveCollision(sc) ==
    \E a, b \in Range(sc) : a # b /\ collidesWithItem(tiles'[a], tiles'[b])

CleanupOps == {"remove_overlapping", "release_draw"}

\* C9: after the removal of overlapping rectangles returns, no two tiles of
\* the workspace collide, and the count it returns is the number of tiles it
\* took out of the workspace.
C9_CleanupLeavesNoCollision ==
    [][(last'.op = "remove_overlapping"
           \/ (last'.op = "release_draw" /\ auto_overlap))
          => /\ ~LiveCollision(scene')
             /\ last'.count
                  = Cardinality((Live \cup (Len(tiles) + 1..Len(tiles'))) \ Range(scene'))]_vars

\* a removal of overlapping rectangles took two tiles out and left two
C9_Witness ==
    /\ last.op \in CleanupOps
    /\ last.count = 2
    /\ Cardinality(Live) = 2

\* C10: a removal of overlapping rectangles that removes at least one tile,
\* started by the user or run at the end of a drawing gesture, leaves one
\* destroy batch of the removed tiles on top of the ledger, and an undo that
\* follows immediately puts exactly the removed tiles back.
C10_CleanupIsRecorded ==
    [][/\ (last'.op \in CleanupOps /\ last'.count > 0)
            => /\ undo_stack' # <<>>
               /\ TopBatch(undo_stack').type \in DestroyTypes
               /\ Range(TopBatch(undo_stack').rectangles) = last'.cleaned
       /\ (last.op \in CleanupOps /\ last.count > 0
             /\ last'.op \in {"undo", "undo_nothing"})
            => Range(scene') = Live \cup last.cleaned]_vars

\* the cell holds a number
NumericCell(f) == f.t \in {"int", "float"}
\* the row has 10 columns and numbers in its serial, coordinate, size and
\* rotation cells
ValidAsStated(row) ==
    /\ row.cols >= 10
    /\ NumericCell(row.serial) /\ NumericCell(row.x) /\ NumericCell(row.y)
    /\ NumericCell(row.width) /\ NumericCell(row.height) /\ NumericCell(row.rotation)
\* the row has 10 columns, a serial cell that is empty or an integer literal,
\* numbers in its coordinate and size cells and a rotation cell that is empty
\* or a number
ValidRow(row) ==
    /\ row.cols >= 10
    /\ row.serial.t \in {"int", "empty"}
    /\ NumericCell(row.x) /\ NumericCell(row.y)
    /\ NumericCell(row.width) /\ NumericCell(row.height)
    /\ row.rotation.t \in {"int", "float", "empty"}
\* the tuples of the tiles of the scene, in the order of scene.items()
TuplesOf(ts, sc) == [i \in 1..Len(sc) |-> TupleOf(ts[items(sc)[i]])]
\* the number of the places of a sequence that hold e
CountOf(seq, e) == Cardinality({i \in DOMAIN seq : seq[i] = e})
\* two sequences hold the same elements as often
SameTuples(a, b) ==
    /\ Len(a) = Len(b)
    /\ \A e \in Range(a) \cup Range(b) : CountOf(a, e) = CountOf(b, e)

\* C11: after an import every tile built from a row carries the serial number
\* of its row, and both serial counters, of the rectangles and of the
\* triangles, are greater than every imported serial number.
C11_ImportAdvancesCounters ==
    last.op = "import"
        => /\ last.created = Len(SelectSeq(last.read, ValidRow))
           /\ \A k \in 1..last.created :
                 tiles[Len(tiles) - last.created + k].serial_number
                    = SelectSeq(last.read, ValidRow)[k].serial.v
           /\ \A i \in LastCreated :
                 /\ tiles[i].serial_number < rect_next
                 /\ tiles[i].serial_number < tri_next

\* C12 as stated: rows with fewer than 10 columns or a non-numeric serial,
\* coordinate, size or rotation cell build no tile, every other row builds
\* one, and the count reported is the number of the other rows.
C12_CountsRowsWithNumbers ==
    last.op = "import"
        => /\ last.imported = Len(SelectSeq(last.read, ValidAsStated))
           /\ last.created = Len(SelectSeq(last.read, ValidAsStated))

\* C12 amended: rows with fewer than 10 columns, a serial cell that is neither
\* empty nor an integer literal, a non-numeric coordinate or size cell or a
\* rotation cell that is neither empty nor a number build no tile and change
\* no counter (the import leaves the workspace as the import of the other
\* rows alone does), every other row builds a tile, and the count reported is
\* the number of the other rows.
C12_SkipsUnreadableRows ==
    [][last'.op = "import"
         => /\ last'.imported = Len(SelectSeq(last'.read, ValidRow))
            /\ Len(tiles') = Len(tiles) + Len(SelectSeq(last'.read, ValidRow))
            /\ tiles' = import_rows(World, SelectSeq(last'.read, ValidRow), 1).tiles
            /\ scene' = import_rows(World, SelectSeq(last'.read, ValidRow), 1).scene
            /\ rect_next' = import_rows(World, SelectSeq(last'.read, ValidRow), 1).rect_next
            /\ tri_next' = import_rows(World, SelectSeq(last'.read, ValidRow), 1).tri_next
            /\ (SelectSeq(last'.read, ValidRow) = <<>>
                  => /\ tiles' = tiles /\ scene' = scene
                     /\ rect_next' = rect_next /\ tri_next' = tri_next)]_vars

\* an import has skipped the first row of a file and built the tile of the
\* second
C12_Witness ==
    /\ last.op = "import"
    /\ Len(last.read) = 2
    /\ ~ValidRow(last.read[1])
    /\ last.imported = 1 /\ last.created = 1

\* C13: the import, into an empty workspace, of the rows exported last builds
\* as many tiles as were exported, with the tuples (x, y, width, height,
\* rotation, kind, serial number) exported.
C13_ExportImportRoundTrip ==
    [][(last'.op = "import" /\ last'.read = csv_file /\ scene = <<>>)
         => SameTuples(TuplesOf(tiles', scene'), last.exported)]_vars

\* the rows of a triangle and of a dragged rectangle were exported and
\* imported into the empty workspace
C13_Witness ==
    /\ last.op = "import" /\ last.read = csv_file
    /\ Cardinality(Live) = 2 /\ last.created = 2
    /\ SameTuples(TuplesOf(tiles, scene), last.exported)
    /\ \E a, b \in Live :
          /\ tiles[a].kind = "Triangle"
          /\ tiles[b].kind = "Rectangle" /\ tiles[b].x = -700

\* twice the distance of the centre of a tile from the height of the drags,
\* positive on the left of a path drawn from left to right
LaneOffset(t) == CentreY(t) - 2 * DragY
\* the tile a is generated before the tile b: in a lane nearer to the path,
\* or at the same distance in the left lane, or in the same lane nearer to
\* the start of the path
GeneratedBefore(a, b) ==
    \/ Abs(LaneOffset(a)) < Abs(LaneOffset(b))
    \/ /\ Abs(LaneOffset(a)) = Abs(LaneOffset(b))
       /\ \/ LaneOffset(a) > LaneOffset(b)
          \/ LaneOffset(a) = LaneOffset(b) /\ CentreX(a) < CentreX(b)

\* C14: the release that ends a gesture whose path has fewer than 2 points
\* creates no tile, records no batch and raises no error, in every placement
\* mode and whatever gestures were completed before it.
C14_ShortGestureDoesNothing ==
    [][(is_drawing /\ ~is_drawing' /\ Len(drawing_path) < 2)
         => /\ tiles' = tiles /\ scene' = scene
            /\ undo_stack' = undo_stack
            /\ ~last'.raised]_vars

\* C15: the release that ends a gesture whose path has 2 points or more, in
\* the parallel or the edge mode, raises no error and leaves the workspace
\* as it was or with tiles added.
C15_LanesNeverRaise ==
    [][(is_drawing /\ ~is_drawing' /\ Len(drawing_path) >= 2
          /\ mode \in {"parallel", "edge"})
         => /\ ~last'.raised
            /\ SubSeq(tiles', 1, Len(tiles)) = tiles
            /\ Range(scene) \subseteq Range(scene')]_vars

\* C16: the tiles one release creates have strictly increasing serial numbers
\* in the order of their generation: the centre lane first, then lane index
\* by lane index the left lane before the right lane, and within a lane by
\* increasing arc length.
C16_SerialsFollowGeneration ==
    last.op = "release_draw"
        => \A i, j \in LastCreated :
              tiles[i].serial_number < tiles[j].serial_number
                 <=> GeneratedBefore(tiles[i], tiles[j])

\* an edge gesture has created the tiles of a centre lane and of two lanes on
\* either side of it, two tiles or more in each
C16_Witness ==
    /\ last.op = "release_draw" /\ ~last.raised
    /\ \A off \in {0, 2 * edge_distance(1), -2 * edge_distance(1),
                    2 * edge_distance(2), -2 * edge_distance(2)} :
          Cardinality({i \in LastCreated : LaneOffset(tiles[i]) = off}) >= 2

\* the centre of the k-th of the tiles created last, doubled
CentreOfCreated(k) ==
    <<CentreX(tiles[Len(tiles) - last.created + k]),
      CentreY(tiles[Len(tiles) - last.created + k])>>
\* the tiles created last are n tiles at the height 0, their centres `step`
\* apart from `first` on, none rotated
RowOfTiles(n, first, step) ==
    /\ last.created = n
    /\ \A k \in 1..last.created :
          /\ CentreOfCreated(k) = <<2 * (first + (k - 1) * step), 0>>
          /\ tiles[Len(tiles) - last.created + k].rotation = 0
\* the placement of the version op on the drag from (0, 0) to (100, 0) with
\* the spacing multiplier 1.0
LongDragPlaced(op) == last.op = op /\ path_in = LongDrag /\ spacing_in = 100

C18_UndoOfNothing ==
    [][(undo_stack = <<>> /\ last'.op \in {"undo", "undo_nothing"})
         => /\ scene' = scene /\ tiles' = tiles
            /\ rect_next' = rect_next /\ tri_next' = tri_next
            /\ undo_stack' = <<>>
            /\ ~last'.raised
            /\ last'.undo_status = "Nothing to undo"]_vars

\* an undo found the undo stack empty while a shape was in the scene
C18_Witness ==
    /\ last.op = "undo_nothing"
    /\ undo_stack = <<>>
    /\ scene # <<>>

\* the first segment of the path that reaches the arc length d
SegmentAtArc(path, d) ==
    CHOOSE i \in 1..(Len(path) - 1) :
        /\ d <= arc_length(path, i + 1)
        /\ \A j \in 1..(i - 1) : d > arc_length(path, j + 1)
\* the point of the path at the arc length d
PointInSegment(path, i, d) ==
    Interpolate(path[i], path[i + 1], d - arc_length(path, i),
                Dist(path[i], path[i + 1]))
PointAtArc(path, d) == PointInSegment(path, SegmentAtArc(path, d), d)
\* the first point, then the points at the multiples of the spacing
EmittedAtMultiples(path, spacing) ==
    <<path[1]>> \o [k \in 1..(arc_length(path, Len(path)) \div spacing) |->
                      PointAtArc(path, k * spacing)]
\* the last raw point follows if it is farther than half the spacing from the
\* last point emitted
WithFinalPoint(emitted, final, spacing) ==
    IF 2 * Dist(final, emitted[Len(emitted)]) > spacing
    THEN Append(emitted, final) ELSE emitted

\* C19: resample_path_by_distance on a path of 2 points or more returns the
\* first point, then the point at every multiple of the target spacing in
\* arc length, and then the last point of the path if and only if it is
\* farther than half the spacing from the last of them.
C19_ResampleAtMultiples ==
    resample_out # <<>>
        => resample_out =
             WithFinalPoint(
                 EmittedAtMultiples(path_in, Max(MinSpacing, user_spacing_of(spacing_in))),
                 path_in[Len(path_in)],
                 Max(MinSpacing, user_spacing_of(spacing_in)))

\* a path of 3 points was resampled to its first point, two points or more
\* at multiples of the spacing, and its last point
C19_Witness ==
    /\ Len(path_in) = 3
    /\ Len(resample_out) >= 4
    /\ resample_out[Len(resample_out)] = path_in[3]
    /\ resample_out[Len(resample_out) - 1] # path_in[3]

\* the path runs from left to right at the height 0
Straight(path) ==
    \A k \in 1..Len(path) :
        /\ path[k][2] = 0
        /\ k > 1 => path[k][1] >= path[k - 1][1]

\* C20: whatever the spacing multiplier, below 1.1 too, two consecutive tiles
\* of a lane are at least 1.1 rectangle sizes apart.
C20_SpacingHasAFloor ==
    (last.op \in {"place_12", "place_11"} /\ Straight(path_in))
        => \A i \in LastCreated :
              (i + 1) \in LastCreated
                 => CentreX(tiles[i + 1]) - CentreX(tiles[i]) >= 2 * MinSpacing

\* C21: the perpendicular offsets of the lanes the lane loop makes, for 1 to
\* 10 lanes on a side and the default multipliers, increase strictly from
\* each lane to the next, the lanes of the fallback multiplier included.
C21_LaneOffsetsIncrease ==
    \A i \in 1..(Len(lane_out) - 1) : lane_out[i + 1] > lane_out[i]

\* the first tile a step has created
FirstCreated == tiles'[Len(tiles) + 1]
\* the position of the tile t is not free of the tiles live before the step
MeetsEarlierTile(t) ==
    check_overlap_at_position(World, {}, t.x, t.y, t.w, t.h, t.rotation)
\* no position the search tries around the tile t is free of the tiles live
\* before the step
NoFreeProbe(t) ==
    try_attempts(World, {}, t.x, t.y, t.w, t.h, t.rotation, 0) = <<t.x, t.y>>

\* C22: in the collision-avoiding placement of tessera1_1 a computed position
\* that collides with a tile live before the gesture is rejected and the search
\* around it started: the first tile of a gesture is left on a position that
\* meets an earlier tile only if every position of the search meets one too.
C22_EarlierTilesAreTested ==
    [][(last'.op = "release_draw" /\ ~auto_overlap /\ Len(tiles') > Len(tiles))
          => (MeetsEarlierTile(FirstCreated) => NoFreeProbe(FirstCreated))]_vars

\* the step is a paint of the item
Painted(item) ==
    /\ paint_out'.item = item
    /\ paint_out' # paint_out \/ cached_overlap_info' # cached_overlap_info

\* C23: a paint made while the batch mode or the zooming flag is set does not
\* compute the overlap classification of its tile: it uses the one cached at
\* the last paint of the tile made with neither flag set (none if there is
\* none) and leaves the cache as it is; a paint made with neither flag set
\* computes the classification from the tiles then in the scene and caches it.
C23_PaintUsesCacheWhileSuppressed ==
    [][\A item \in 1..Len(tiles) : Painted(item) =>
          IF batch_operation \/ is_zooming
          THEN /\ paint_out'.overlap_info = cached_info_of(cached_overlap_info, item)
               /\ cached_overlap_info' = cached_overlap_info
          ELSE /\ paint_out'.overlap_info
                    = check_for_overlaps_with_color(tiles, scene, item)
               /\ cached_info_of(cached_overlap_info', item) = paint_out'.overlap_info]_vars

\* a tile was painted during a zoom with a cached classification that the
\* tiles of the scene no longer give it
C23_Witness ==
    /\ is_zooming /\ ~paint_out.checked
    /\ paint_out.item \in Range(scene)
    /\ paint_out.overlap_info # <<>>
    /\ paint_out.overlap_info
         # check_for_overlaps_with_color(tiles, scene, paint_out.item)

\* C24: the batch mode is on only inside the finalize of a path placement:
\* it is off whenever a handler has returned, also when the placement raised an
\* error, so that every single add made afterwards is recorded on the ledger.
C24_BatchModeEndsWithFinalize ==
    /\ ~batch_operation
    /\ last.op \in {"add_rectangle", "add_triangle"} => last.pushes = 1

\* C25: when the bulk delete of the newer tiles has returned, no two tiles
\* left in the workspace collide: of every two tiles that collided before it,
\* the one with the larger serial number at least has been removed.
C25_NoCollisionAfterDeleteNewer ==
    [][last'.op = "delete_red"
          => /\ \A a, b \in Live :
                   (Collide(a, b) /\ tiles[a].serial_number > tiles[b].serial_number)
                       => a \notin Range(scene')
             /\ \A a, b \in Range(scene') : ~Collide(a, b)]_vars

\* C26: after every release of the left button the drawing state machine is
\* idle (is_drawing is off, and the temporary path item gone with it), also
\* when the drawing mode was switched off between the press and the release,
\* so that a move never extends a path while the button is up.
C26_IdleAfterRelease ==
    [][/\ (mouse_down /\ ~mouse_down') => ~is_drawing'
       /\ Len(drawing_path') > Len(drawing_path) => mouse_down']_vars

\* the last handler of tessera1_1 ended with detect_and_color_overlaps
OverlapsRecomputed ==
    \/ last.op \in {"delete_top", "delete_bottom"} /\ last.removed > 0
    \/ last.op = "undo"
    \/ last.op = "release_draw" /\ ~auto_overlap

\* C27: in tessera1_1, after every operation that sets the overlap states
\* again (the end of a drawing gesture, the removal of the top or of the
\* bottom tiles, undo), a tile of the workspace is marked top or bottom only if
\* it collides with another tile of the workspace, also when fewer than two
\* tiles are left.
C27_MarkedTilesCollide ==
    OverlapsRecomputed =>
        \A a \in Live \cap (overlap_state.top \cup overlap_state.bottom) :
            \E b \in Live \ {a} : collidesWithItem(tiles[a], tiles[b])

\* the tiles of the workspace when the removal of overlapping rectangles of
\* the step starts: those of the scene and those the gesture has just created
AtCleanupStart == Live \cup ((Len(tiles) + 1)..Len(tiles'))
\* the tile b is an older tile that a collides with
OlderCollider(a, b) ==
    /\ b # a
    /\ tiles'[b].serial_number < tiles'[a].serial_number
    /\ collidesWithItem(tiles'[a], tiles'[b]) \/ collidesWithItem(tiles'[b], tiles'[a])

\* C28: the removal of overlapping rectangles of tessera1_1 takes a tile out
\* only if, when the removal starts, the tile collides with a tile of the
\* workspace that has a strictly smaller serial number; so a tile that
\* collides with nothing stays, and so does the tile of the smallest serial.
C28_CleanupRemovesOnlyNewer ==
    [][(last'.op = "remove_overlapping"
           \/ (last'.op = "release_draw" /\ auto_overlap))
          => /\ \A a \in AtCleanupStart \ Range(scene') :
                   \E b \in AtCleanupStart : OlderCollider(a, b)
             /\ \A a \in AtCleanupStart :
                   (\A b \in AtCleanupStart :
                        tiles'[a].serial_number <= tiles'[b].serial_number)
                       => a \in Range(scene')]_vars

\* a removal of overlapping rectangles took one tile out and left two
C28_Witness ==
    /\ last.op \in CleanupOps
    /\ last.count = 1
    /\ Cardinality(Live) = 2

\* the batches of the ledger that record tiles taken out of the workspace
DestroyBatches ==
    {i \in DOMAIN undo_stack : undo_stack[i].type \in DestroyTypes}

\* C29: no tile of a destroy batch that is on the undo ledger is in the
\* workspace, after any sequence of adds, erases, clear-all, bulk deletes and
\* undos; so the undo of a destroy batch never inserts a tile that is in the
\* workspace already, and no tile is in the workspace twice.
C29_DestroyedTilesAreAbsent ==
    /\ \A i \in DestroyBatches : Range(undo_stack[i].rectangles) \cap Live = {}
    /\ Cardinality(Live) = Len(scene)

\* an undo has put tiles back while an older destroy batch is on the ledger
C29_Witness ==
    /\ last.op = "undo" /\ last.restored > 0
    /\ \E i \in DestroyBatches : undo_stack[i].rectangles # <<>>

\* C30: the placement of tiles along a path and the resampling of a path
\* return for every path, also one with segments of length 0 and repeated
\* points, when the tile size and the spacing multiplier are positive; a
\* segment of length 0 gets no tile (and no point), so nothing is divided by
\* a length of 0.
C30_SamplingLoopsReturn ==
    /\ <>(loop.pc = "done")
    /\ [][Len(loop'.out) > Len(loop.out) /\ loop.pc = "loop" /\ loop'.pc = "loop"
             => Dist(path_in[loop.seg], path_in[loop.seg + 1]) > 0]_vars

\* a call has returned on a path that begins with a segment of length 0 and
\* goes on
C30_Witness ==
    /\ loop.pc = "done"
    /\ path_in[1] = path_in[2]
    /\ Len(path_in) > 2 /\ path_in[3] # path_in[2]
    /\ loop.out # <<>>

====
